---------------------------- MODULE LinuxSetupProofs ----------------------------
(***************************************************************************)
(* What a run of the Linux splitter does to the rules and the offload      *)
(* settings of the host, proved for all flags and any number of runs,      *)
(* kills and failing commands.                                             *)
(*                                                                         *)
(* A run is a list of commands.  While it sets up, every command is        *)
(* followed by the one that Succ names, so that the command at its head    *)
(* tells what has been done; of a list that undoes it is enough to know    *)
(* which commands are still in it.                                         *)
(***************************************************************************)
EXTENDS LinuxSetup, SequenceTheorems, TLAPS

SetupCommands == {"tools", "addTable", "addChain", "newChain", "clear", "jump", "mark", "lo",
                  "queue", "iface", "read", "disable", "open"}
UndoCommands == {"restore", "unjump", "clear", "dropChain"}

\* The command after cmd in SetupPlan, or "end".
Succ(cmd) ==
  CASE cmd = "tools"    -> IF ~opts.autoRules THEN "iface"
                           ELSE IF backend = "nft" THEN "addTable" ELSE "newChain"
    [] cmd = "addTable" -> "addChain"
    [] cmd = "addChain" -> "clear"
    [] cmd = "newChain" -> "clear"
    [] cmd = "clear"    -> IF backend = "nft" THEN "mark" ELSE "jump"
    [] cmd = "jump"     -> "mark"
    [] cmd = "mark"     -> IF opts.lo THEN "lo" ELSE "queue"
    [] cmd = "lo"       -> "queue"
    [] cmd = "queue"    -> IF opts.autoOffload THEN "iface" ELSE "open"
    [] cmd = "iface"    -> IF opts.restore THEN "read" ELSE "disable"
    [] cmd = "read"     -> "disable"
    [] cmd = "disable"  -> "open"
    [] cmd = "open"     -> "end"

\* q are the commands from a on, one after the other, up to but not including b.
Linked(q, a, b) ==
  /\ q \in Seq(SetupCommands)
  /\ q = <<>> => a = b
  /\ q # <<>> => q[1] = a /\ Succ(q[Len(q)]) = b
  /\ \A i \in 1 .. Len(q) - 1 : q[i + 1] = Succ(q[i])

\* Where the set-up is.
Here == IF todo = <<>> THEN "end" ELSE Head(todo)

\* The rules are installed, if there are any to install.
Late == Here \in {"iface", "read", "disable", "open", "end"}

\* The commands of InstallPlan.
RuleCommands == {"addTable", "addChain", "newChain", "clear", "jump", "mark", "lo", "queue"}

\* The rules in their order, and the chain that holds the first n of them.
Rule(i) == IF i = 1 THEN "mark" ELSE IF i = 2 /\ opts.lo THEN "lo" ELSE "queue"
RuleCount == IF opts.lo THEN 3 ELSE 2
ChainHas(n) == Len(chain) = n /\ \A i \in 1 .. n : chain[i] = Rule(i)

TypeOK ==
  /\ opts \in Options /\ backend \in {"nft", "iptables"}
  /\ chain \in Seq({"mark", "lo", "queue"}) /\ jumps \in Nat
  /\ offload \in {"on", "off"} /\ saved \in {"none", "on", "off"}
  /\ pc \in {"down", "setup", "engine", "undo"}
  /\ exit \in {"none", "crash", "returned"}
  /\ cleanup \in BOOLEAN /\ leftover \in BOOLEAN
  /\ badUndo \in BOOLEAN /\ lostOffload \in BOOLEAN

\* The list of commands.
PlanInv ==
  /\ pc = "setup" => Linked(todo, Here, "end")
  /\ pc = "engine" => todo = <<>>
  /\ pc = "undo" => todo \in Seq(UndoCommands)

\* The rules while the run sets up and while the engine runs.
ChainInv ==
  pc \in {"setup", "engine"} =>
    /\ Here \in RuleCommands => opts.autoRules
    /\ Here \in {"jump", "mark"} => ChainHas(0)
    /\ Here = "lo" => ChainHas(1) /\ opts.lo
    /\ Here = "queue" => ChainHas(RuleCount - 1)
    /\ Here \in {"mark", "lo", "queue"} /\ backend = "iptables" => jumps > 0
    /\ cleanup <=> Late /\ opts.autoRules
    /\ cleanup => ChainHas(RuleCount) /\ (backend = "iptables" => jumps > 0)

\* Packets are diverted by rules that the clean-up will delete, or that were in force
\* when the run began.
DivertInv ==
  /\ pc \in {"setup", "engine", "undo"} /\ ~cleanup => ~Diverts \/ leftover
  /\ pc = "undo" /\ cleanup /\ ~badUndo => ~Diverts \/ Contains(todo, "clear")

\* The original state of the offloads is in force, or saved and to be restored.
OffloadInv ==
  /\ pc = "setup" /\ Here \notin {"disable", "open", "end"} => saved = "none"
  /\ pc = "undo" /\ Contains(todo, "restore") => saved # "none"
  /\ opts.restore /\ ~lostOffload =>
       /\ pc = "down" => offload = "on"
       /\ pc # "down" => saved # "off" /\ (offload = "on" \/ saved = "on")
       /\ pc = "setup" /\ Here = "disable" => saved = "on"
       /\ pc = "undo" => offload = "on" \/ Contains(todo, "restore")

IInv == TypeOK /\ PlanInv /\ ChainInv /\ DivertInv /\ RulesRemoved /\ OffloadInv

-----------------------------------------------------------------------------
\* Lists of commands.

\* A single command, and none.
LEMMA LinkedOne ==
  ASSUME NEW c \in SetupCommands
  PROVE  Linked(<<c>>, c, Succ(c))
BY DEF Linked

\* (None leads from a to a.)
LEMMA LinkedNone ==
  ASSUME NEW a
  PROVE  Linked(<<>>, a, a)
BY EmptySeq DEF Linked

\* Two lists, the second of which begins where the first one ends.
LEMMA LinkedConcat ==
  ASSUME NEW s, NEW t, NEW a, NEW b, NEW c, Linked(s, a, b), Linked(t, b, c)
  PROVE  Linked(s \o t, a, c)
<1> DEFINE q == s \o t
<1>1. /\ s \in Seq(SetupCommands) /\ t \in Seq(SetupCommands)
      /\ Len(s) \in Nat /\ Len(t) \in Nat
  BY LenProperties DEF Linked
<1>2. /\ q \in Seq(SetupCommands) /\ Len(q) = Len(s) + Len(t)
      /\ \A i \in 1 .. Len(s) : q[i] = s[i]
      /\ \A i \in 1 .. Len(t) : q[i + Len(s)] = t[i]
  BY <1>1, ConcatProperties
<1>3. CASE s = <<>>
  BY <1>1, <1>3, ConcatEmptySeq DEF Linked
<1>4. CASE t = <<>>
  BY <1>1, <1>4, ConcatEmptySeq DEF Linked
<1>5. CASE s # <<>> /\ t # <<>>
  <2>1. Len(s) > 0 /\ Len(t) > 0
    BY <1>1, <1>5, EmptySeq
  <2> HIDE DEF q
  <2>2. q # <<>>
    BY <1>1, <1>2, <2>1, EmptySeq
  <2>3. q[1] = a /\ Succ(q[Len(q)]) = c
    <3>1. 1 \in 1 .. Len(s) /\ Len(t) \in 1 .. Len(t) /\ Len(q) = Len(t) + Len(s)
      BY <1>1, <1>2, <2>1
    <3>2. q[1] = s[1] /\ q[Len(q)] = t[Len(t)]
      BY <1>2, <3>1
    <3> QED
      BY <1>5, <3>2 DEF Linked
  <2>4. ASSUME NEW i \in 1 .. Len(q) - 1
        PROVE  q[i + 1] = Succ(q[i])
    <3>1. CASE i < Len(s)
      <4>1. i \in 1 .. Len(s) - 1 /\ i \in 1 .. Len(s) /\ i + 1 \in 1 .. Len(s)
        BY <1>1, <1>2, <3>1
      <4> QED
        BY <1>2, <4>1 DEF Linked
    <3>2. CASE i = Len(s)
      <4>1. i \in 1 .. Len(s) /\ 1 \in 1 .. Len(t) /\ i + 1 = 1 + Len(s)
        BY <1>1, <1>2, <2>1, <3>2
      <4>2. q[i] = s[Len(s)] /\ q[i + 1] = t[1]
        BY <1>2, <3>2, <4>1
      <4> QED
        BY <1>5, <4>2 DEF Linked
    <3>3. CASE i > Len(s)
      <4> DEFINE j == i - Len(s)
      <4>1. /\ j \in 1 .. Len(t) - 1 /\ j \in 1 .. Len(t) /\ j + 1 \in 1 .. Len(t)
            /\ i = j + Len(s) /\ i + 1 = (j + 1) + Len(s)
        BY <1>1, <1>2, <3>3
      <4> HIDE DEF j
      <4>2. q[i] = t[j] /\ q[i + 1] = t[j + 1]
        BY <1>2, <4>1
      <4> QED
        BY <4>1, <4>2 DEF Linked
    <3> QED
      BY <1>1, <1>2, <3>1, <3>2, <3>3
  <2> QED
    BY <1>2, <2>2, <2>3, <2>4 DEF Linked, q
<1> QED
  BY <1>3, <1>4, <1>5

\* A command is done: the one that Succ names is next.
LEMMA LinkedTail ==
  ASSUME NEW q, NEW a, NEW b, Linked(q, a, b), q # <<>>
  PROVE  /\ Head(q) = a /\ a \in SetupCommands
         /\ Linked(Tail(q), Succ(a), b)
         /\ Tail(q) # <<>> => Head(Tail(q)) = Succ(a)
<1>1. /\ Len(q) \in Nat /\ Len(q) > 0
      /\ Tail(q) \in Seq(SetupCommands) /\ Len(Tail(q)) = Len(q) - 1
      /\ \A i \in 1 .. Len(Tail(q)) : Tail(q)[i] = q[i + 1]
  BY LenProperties, EmptySeq, HeadTailProperties DEF Linked
<1>2. Head(q) = a /\ a \in SetupCommands
  BY <1>1, ElementOfSeq DEF Linked
<1>3. CASE Tail(q) = <<>>
  <2>1. Len(q) = 1
    <3> DEFINE n == Len(Tail(q))
    <3>1. n = 0
      BY <1>3, EmptySeq
    <3>2. n = Len(q) - 1 /\ Len(q) \in Nat
      BY <1>1
    <3> HIDE DEF n
    <3> QED
      BY <3>1, <3>2
  <2>2. Succ(a) = b
    BY <1>1, <1>2, <2>1 DEF Linked
  <2> QED
    BY <1>2, <1>3, <2>2, LinkedNone
<1>4. CASE Tail(q) # <<>>
  <2>1. Len(Tail(q)) > 0
    BY <1>1, <1>4, EmptySeq
  <2>2. Tail(q)[1] = Succ(a) /\ Head(Tail(q)) = Tail(q)[1]
    BY <1>1, <1>2, <1>4, <2>1 DEF Linked
  <2>3. Succ(Tail(q)[Len(Tail(q))]) = b
    BY <1>1, <2>1 DEF Linked
  <2>4. \A i \in 1 .. Len(Tail(q)) - 1 : Tail(q)[i + 1] = Succ(Tail(q)[i])
    BY <1>1 DEF Linked
  <2> QED
    BY <1>1, <1>2, <1>4, <2>2, <2>3, <2>4 DEF Linked
<1> QED
  BY <1>3, <1>4
\* The first command.
First == IF opts.autoRules \/ opts.autoOffload THEN "tools" ELSE "open"

\* The list with which run begins is linked.
LEMMA PlanLinked ==
  ASSUME opts \in Options, backend \in {"nft", "iptables"}
  PROVE  Linked(SetupPlan, First, "end")
<1>0. opts.autoRules => opts.mark
  BY DEF Options
<1> DEFINE O == IF opts.autoOffload THEN "iface" ELSE "open"
           R == IF ~opts.autoRules THEN O
                ELSE IF backend = "nft" THEN "addTable" ELSE "newChain"
<1>1. Linked(<<"open">>, "open", "end")
  <2>1. Succ("open") = "end" /\ "open" \in SetupCommands
    BY DEF Succ, SetupCommands
  <2> QED
    BY <2>1, LinkedOne
<1>2. Linked(If(opts.autoOffload, OffloadPlan), O, "open")
  <2>1. CASE opts.autoOffload
    <3>1. /\ Linked(<<"iface">>, "iface", IF opts.restore THEN "read" ELSE "disable")
          /\ Linked(<<"disable">>, "disable", "open")
      <4>1. /\ Succ("iface") = IF opts.restore THEN "read" ELSE "disable"
            /\ Succ("disable") = "open" /\ "iface" \in SetupCommands
            /\ "disable" \in SetupCommands
        BY DEF Succ, SetupCommands
      <4> QED
        BY <4>1, LinkedOne
    <3>2. Linked(If(opts.restore, <<"read">>),
                 IF opts.restore THEN "read" ELSE "disable", "disable")
      <4>1. Succ("read") = "disable" /\ "read" \in SetupCommands
        BY DEF Succ, SetupCommands
      <4>2. Linked(<<"read">>, "read", "disable")
        BY <4>1, LinkedOne
      <4> QED
        BY <4>2, LinkedNone DEF If
    <3>3. Linked(<<"iface">> \o If(opts.restore, <<"read">>), "iface", "disable")
      BY <3>1, <3>2, LinkedConcat
    <3>4. Linked(OffloadPlan, "iface", "open")
      BY <3>1, <3>3, LinkedConcat DEF OffloadPlan
    <3> QED
      BY <2>1, <3>4 DEF If
  <2>2. CASE ~opts.autoOffload
    BY <2>2, LinkedNone DEF If
  <2> QED
    BY <2>1, <2>2
<1>3. Linked(If(opts.autoRules, InstallPlan), R, O)
  <2>1. CASE opts.autoRules
    <3>1. Linked(RuleList, "mark", O)
      <4>1. /\ Succ("mark") = IF opts.lo THEN "lo" ELSE "queue"
            /\ Succ("lo") = "queue" /\ Succ("queue") = O
            /\ "mark" \in SetupCommands /\ "lo" \in SetupCommands /\ "queue" \in SetupCommands
        BY DEF Succ, SetupCommands
      <4>2. /\ Linked(<<"mark">>, "mark", IF opts.lo THEN "lo" ELSE "queue")
            /\ Linked(<<"lo">>, "lo", "queue") /\ Linked(<<"queue">>, "queue", O)
        BY <4>1, LinkedOne
      <4>3. Linked(If(opts.lo, <<"lo">>), IF opts.lo THEN "lo" ELSE "queue", "queue")
        BY <4>2, LinkedNone DEF If
      <4>4. If(opts.mark, <<"mark">>) = <<"mark">>
        BY <1>0, <2>1 DEF If
      <4> HIDE DEF O
      <4>5. Linked(<<"mark">> \o If(opts.lo, <<"lo">>), "mark", "queue")
        BY <4>2, <4>3, LinkedConcat
      <4>6. Linked((<<"mark">> \o If(opts.lo, <<"lo">>)) \o <<"queue">>, "mark", O)
        BY <4>2, <4>5, LinkedConcat
      <4> QED
        BY <4>4, <4>6 DEF RuleList
    <3>2. CASE backend = "nft"
      <4>1. Linked(<<"addTable", "addChain", "clear">>, "addTable", "mark")
        BY <3>2 DEF Linked, Succ, SetupCommands
      <4> HIDE DEF O
      <4>2. Linked(<<"addTable", "addChain", "clear">> \o RuleList, "addTable", O)
        BY <3>1, <4>1, LinkedConcat
      <4>3. InstallPlan = <<"addTable", "addChain", "clear">> \o RuleList
        BY <3>2 DEF InstallPlan
      <4> QED
        BY <2>1, <3>2, <4>2, <4>3 DEF If
    <3>3. CASE backend = "iptables"
      <4>1. Linked(<<"newChain", "clear", "jump">>, "newChain", "mark")
        BY <3>3 DEF Linked, Succ, SetupCommands
      <4> HIDE DEF O
      <4>2. Linked(<<"newChain", "clear", "jump">> \o RuleList, "newChain", O)
        BY <3>1, <4>1, LinkedConcat
      <4>3. InstallPlan = <<"newChain", "clear", "jump">> \o RuleList
        BY <3>3 DEF InstallPlan
      <4> QED
        BY <2>1, <3>3, <4>2, <4>3 DEF If
    <3> QED
      BY <3>2, <3>3
  <2>2. CASE ~opts.autoRules
    BY <2>2, LinkedNone DEF If
  <2> QED
    BY <2>1, <2>2
<1>4. Linked(If(opts.autoRules \/ opts.autoOffload, <<"tools">>), First, R)
  <2>1. CASE opts.autoRules \/ opts.autoOffload
    <3>1. Succ("tools") = R /\ "tools" \in SetupCommands
      BY <2>1 DEF Succ, SetupCommands
    <3> HIDE DEF R
    <3>2. Linked(<<"tools">>, "tools", R)
      BY <3>1, LinkedOne
    <3> QED
      BY <2>1, <3>2 DEF If, First
  <2>2. CASE ~(opts.autoRules \/ opts.autoOffload)
    BY <2>2, LinkedNone DEF If, First
  <2> QED
    BY <2>1, <2>2
<1> HIDE DEF O, R
<1>5. Linked(If(opts.autoRules \/ opts.autoOffload, <<"tools">>)
               \o If(opts.autoRules, InstallPlan), First, O)
  BY <1>3, <1>4, LinkedConcat
<1>6. Linked((If(opts.autoRules \/ opts.autoOffload, <<"tools">>)
               \o If(opts.autoRules, InstallPlan))
               \o If(opts.autoOffload, OffloadPlan), First, "open")
  BY <1>2, <1>5, LinkedConcat
<1> QED
  BY <1>1, <1>6, LinkedConcat DEF SetupPlan

\* The clean-up is returned with the queue rule.
LEMMA QueueIsLast ==
  ASSUME opts \in Options
  PROVE  Last(RuleList) = "queue"
<1> DEFINE s == If(opts.mark, <<"mark">>) \o If(opts.lo, <<"lo">>)
<1>1. s \in Seq({"mark", "lo", "queue"})
  <2>1. /\ <<"mark">> \in Seq({"mark", "lo", "queue"})
        /\ <<"lo">> \in Seq({"mark", "lo", "queue"})
    OBVIOUS
  <2>2. /\ If(opts.mark, <<"mark">>) \in Seq({"mark", "lo", "queue"})
        /\ If(opts.lo, <<"lo">>) \in Seq({"mark", "lo", "queue"})
    BY <2>1, EmptySeq DEF If
  <2> QED
    BY <2>2, ConcatProperties
<1>2. <<"queue">> \in Seq({"mark", "lo", "queue"}) /\ Len(<<"queue">>) = 1
      /\ <<"queue">>[1] = "queue"
  OBVIOUS
<1> HIDE DEF s
<1>3. /\ Len(s \o <<"queue">>) = Len(s) + 1 /\ Len(s) \in Nat
      /\ (s \o <<"queue">>)[Len(s) + 1] = "queue"
  BY <1>1, <1>2, ConcatProperties, LenProperties
<1> QED
  BY <1>3 DEF RuleList, Last, s
\* What a list holds that is made of two.
LEMMA ContainsConcat ==
  ASSUME NEW S, NEW s \in Seq(S), NEW t \in Seq(S), NEW c
  PROVE  /\ s \o t \in Seq(S)
         /\ Contains(s \o t, c) <=> Contains(s, c) \/ Contains(t, c)
<1> DEFINE q == s \o t
<1>1. Len(s) \in Nat /\ Len(t) \in Nat
  BY LenProperties
<1>2. /\ q \in Seq(S) /\ Len(q) = Len(s) + Len(t)
      /\ \A i \in 1 .. Len(s) : q[i] = s[i]
      /\ \A i \in 1 .. Len(t) : q[i + Len(s)] = t[i]
  BY <1>1, ConcatProperties
<1> HIDE DEF q
<1>3. ASSUME NEW i \in 1 .. Len(q), q[i] = c
      PROVE  Contains(s, c) \/ Contains(t, c)
  <2>1. CASE i <= Len(s)
    <3>1. i \in 1 .. Len(s)
      BY <1>1, <1>2, <2>1
    <3> QED
      BY <1>2, <1>3, <3>1 DEF Contains
  <2>2. CASE i > Len(s)
    <3>1. i - Len(s) \in 1 .. Len(t) /\ (i - Len(s)) + Len(s) = i
      BY <1>1, <1>2, <2>2
    <3> QED
      BY <1>2, <1>3, <3>1 DEF Contains
  <2> QED
    BY <1>1, <1>2, <2>1, <2>2
<1>4. ASSUME NEW i \in 1 .. Len(s), s[i] = c
      PROVE  Contains(q, c)
  <2>1. i \in 1 .. Len(q)
    BY <1>1, <1>2
  <2> QED
    BY <1>2, <1>4, <2>1 DEF Contains
<1>5. ASSUME NEW i \in 1 .. Len(t), t[i] = c
      PROVE  Contains(q, c)
  <2>1. i + Len(s) \in 1 .. Len(q)
    BY <1>1, <1>2
  <2> QED
    BY <1>2, <1>5, <2>1 DEF Contains
<1>6. Contains(q, c) => Contains(s, c) \/ Contains(t, c)
  BY <1>3 DEF Contains
<1>7. Contains(s, c) \/ Contains(t, c) => Contains(q, c)
  BY <1>4, <1>5 DEF Contains
<1> QED
  BY <1>2, <1>6, <1>7 DEF q

\* What is left of a list without its first element.
LEMMA ContainsTail ==
  ASSUME NEW S, NEW q \in Seq(S), q # <<>>, NEW c
  PROVE  /\ Head(q) \in S /\ Tail(q) \in Seq(S)
         /\ Contains(Tail(q), c) => Contains(q, c)
         /\ Contains(q, c) /\ Head(q) # c => Contains(Tail(q), c)
<1> DEFINE r == Tail(q)
<1>1. /\ Len(q) \in Nat /\ Len(r) = Len(q) - 1 /\ r \in Seq(S) /\ Head(q) \in S
      /\ \A i \in 1 .. Len(r) : r[i] = q[i + 1]
  BY LenProperties, HeadTailProperties
<1>2. Head(q) = q[1]
  OBVIOUS
<1> HIDE DEF r
<1>3. ASSUME NEW i \in 1 .. Len(r), r[i] = c
      PROVE  Contains(q, c)
  <2>1. i + 1 \in 1 .. Len(q) /\ q[i + 1] = c
    BY <1>1, <1>3
  <2> QED
    BY <2>1 DEF Contains
<1>4. ASSUME NEW i \in 1 .. Len(q), q[i] = c, Head(q) # c
      PROVE  Contains(r, c)
  <2>1. i - 1 \in 1 .. Len(r) /\ (i - 1) + 1 = i
    BY <1>1, <1>2, <1>4
  <2>2. r[i - 1] = c
    BY <1>1, <1>4, <2>1
  <2> QED
    BY <2>1, <2>2 DEF Contains
<1>5. Contains(r, c) => Contains(q, c)
  BY <1>3 DEF Contains
<1>6. Contains(q, c) /\ Head(q) # c => Contains(r, c)
  BY <1>4 DEF Contains
<1> QED
  BY <1>1, <1>5, <1>6 DEF r

\* An empty list holds nothing.
LEMMA ContainsNone ==
  ASSUME NEW c
  PROVE  ~Contains(<<>>, c)
BY EmptySeq DEF Contains

\* The lists that undo: the offloads are restored if their state was read, and the
\* chain is cleared if the rules are installed.
LEMMA CleanupHolds ==
  ASSUME backend \in {"nft", "iptables"}
  PROVE  /\ CleanupPlan \in Seq(UndoCommands)
         /\ ~Contains(CleanupPlan, "restore")
         /\ cleanup => Contains(CleanupPlan, "clear")
<1>1. CASE ~cleanup
  BY <1>1, EmptySeq, ContainsNone DEF CleanupPlan, If
<1>2. CASE cleanup /\ backend = "nft"
  <2>1. CleanupPlan = <<"clear">>
    BY <1>2 DEF CleanupPlan, If
  <2>2. Len(<<"clear">>) = 1 /\ <<"clear">>[1] = "clear" /\ <<"clear">> \in Seq(UndoCommands)
    BY DEF UndoCommands
  <2> QED
    BY <2>1, <2>2 DEF Contains
<1>3. CASE cleanup /\ backend = "iptables"
  <2> DEFINE q == <<"unjump", "clear", "dropChain">>
  <2>1. CleanupPlan = q
    BY <1>3 DEF CleanupPlan, If
  <2>2. /\ Len(q) = 3 /\ q[1] = "unjump" /\ q[2] = "clear" /\ q[3] = "dropChain"
        /\ q \in Seq(UndoCommands)
    BY DEF UndoCommands
  <2> HIDE DEF q
  <2>3. 2 \in 1 .. Len(q) /\ 1 .. Len(q) = {1, 2, 3}
    BY <2>2
  <2> QED
    BY <2>1, <2>2, <2>3 DEF Contains
<1> QED
  BY <1>1, <1>2, <1>3

\* The deferred functions.
LEMMA DeferredHolds ==
  ASSUME backend \in {"nft", "iptables"}
  PROVE  /\ Deferred \in Seq(UndoCommands)
         /\ Contains(Deferred, "restore") <=> saved # "none"
         /\ cleanup => Contains(Deferred, "clear")
<1> DEFINE r == If(saved # "none", <<"restore">>)
<1>1. r \in Seq(UndoCommands) /\ (Contains(r, "restore") <=> saved # "none")
  <2>1. Len(<<"restore">>) = 1 /\ <<"restore">>[1] = "restore"
        /\ <<"restore">> \in Seq(UndoCommands)
    BY DEF UndoCommands
  <2>2. CASE saved # "none"
    BY <2>1, <2>2 DEF If, Contains
  <2>3. CASE saved = "none"
    BY <2>3, EmptySeq, ContainsNone DEF If
  <2> QED
    BY <2>2, <2>3
<1> HIDE DEF r
<1> QED
  BY <1>1, CleanupHolds, ContainsConcat DEF Deferred, r

\* What run does when a command of the set-up has failed.
LEMMA AfterFailureHolds ==
  ASSUME backend \in {"nft", "iptables"}
  PROVE  /\ AfterFailure \in Seq(UndoCommands)
         /\ Contains(AfterFailure, "restore") <=> saved # "none"
         /\ cleanup => Contains(AfterFailure, "clear")
<1> DEFINE r == If(Head(todo) \in {"iface", "disable"}, CleanupPlan)
<1>1. r \in Seq(UndoCommands) /\ ~Contains(r, "restore")
  BY CleanupHolds, EmptySeq, ContainsNone DEF If
<1> HIDE DEF r
<1> QED
  BY <1>1, DeferredHolds, ContainsConcat DEF AfterFailure, r
-----------------------------------------------------------------------------
\* One command further.

\* Succ depends on the flags and the tool only.
LEMMA LinkedPrime ==
  ASSUME opts' = opts, backend' = backend, Linked(todo', Here', "end")
  PROVE  Linked(todo, Here, "end")'
<1>1. \A c : Succ(c)' = Succ(c)
  BY DEF Succ
<1> QED
  BY <1>1 DEF Linked

\* A command of the set-up is done.
LEMMA CommandsLeft ==
  ASSUME PlanInv, pc = "setup", todo # <<>>, todo' = Tail(todo), pc' = pc,
         opts' = opts, backend' = backend
  PROVE  /\ PlanInv'
         /\ Here = Head(todo) /\ Here \in SetupCommands /\ Here' = Succ(Here)
<1>1. Linked(todo, Here, "end") /\ Here = Head(todo)
  BY DEF PlanInv, Here
<1>2. /\ Here \in SetupCommands
      /\ Linked(todo', Succ(Here), "end")
      /\ todo' # <<>> => Head(todo') = Succ(Here)
  BY <1>1, LinkedTail
<1>3. Here' = Succ(Here)
  BY <1>2 DEF Here, Linked
<1>4. Linked(todo, Here, "end")'
  BY <1>2, <1>3, LinkedPrime
<1> QED
  BY <1>1, <1>2, <1>3, <1>4 DEF PlanInv

\* A command that undoes is done, or has failed.
LEMMA UndoNext ==
  ASSUME PlanInv, pc = "undo", todo # <<>>, todo' = Tail(todo), pc' = pc
  PROVE  /\ PlanInv'
         /\ Head(todo) \in UndoCommands
         /\ \A c : /\ Contains(todo', c) => Contains(todo, c)
                   /\ Contains(todo, c) /\ Head(todo) # c => Contains(todo', c)
<1>1. todo \in Seq(UndoCommands)
  BY DEF PlanInv
<1>2. Head(todo) \in UndoCommands /\ todo' \in Seq(UndoCommands)
  BY <1>1, ContainsTail
<1>3. ASSUME NEW c
      PROVE  /\ Contains(todo', c) => Contains(todo, c)
             /\ Contains(todo, c) /\ Head(todo) # c => Contains(todo', c)
  BY <1>1, ContainsTail
<1> QED
  BY <1>2, <1>3 DEF PlanInv

\* Taking rules or jumps away diverts nothing.
LEMMA FewerRules ==
  ASSUME TypeOK, backend' = backend, jumps' \in Nat, jumps' <= jumps,
         \/ chain' = chain
         \/ chain' = <<>>
         \/ chain # <<>> /\ chain' = Tail(chain)
  PROVE  Diverts' => Diverts
<1>1. Contains(chain', "queue") => Contains(chain, "queue")
  BY ContainsNone, ContainsTail DEF TypeOK
<1>2. jumps' > 0 => jumps > 0
  BY DEF TypeOK
<1> QED
  BY <1>1, <1>2 DEF Diverts

\* The first rules do not divert.
LEMMA FirstRulesOnly ==
  ASSUME TypeOK, NEW n \in 0 .. RuleCount - 1, ChainHas(n)
  PROVE  ~Diverts
BY DEF Diverts, Contains, ChainHas, Rule, RuleCount

\* A command of the set-up that leaves the rules alone.
LEMMA RulesFrame ==
  ASSUME IInv, pc = "setup", todo # <<>>, todo' = Tail(todo), pc' = pc,
         Head(todo) \notin {"clear", "jump", "mark", "lo", "queue"},
         opts' = opts, backend' = backend, chain' = chain, jumps' = jumps,
         cleanup' = cleanup, leftover' = leftover
  PROVE  /\ PlanInv' /\ ChainInv' /\ DivertInv' /\ RulesRemoved'
         /\ Here = Head(todo) /\ Here' = Succ(Here)
<1>1. PlanInv' /\ Here = Head(todo) /\ Here \in SetupCommands /\ Here' = Succ(Here)
  BY CommandsLeft DEF IInv
<1>2. Here \in {"tools", "addTable", "addChain", "newChain",
               "iface", "read", "disable", "open"}
  BY <1>1 DEF SetupCommands
<1>3. ChainInv'
  <2>1. /\ Late' <=> Late \/ (Here = "tools" /\ ~opts.autoRules)
        /\ Here' \notin {"jump", "mark", "lo", "queue"}
    BY <1>1, <1>2 DEF Late, Succ, IInv, TypeOK
  <2>2. cleanup <=> Late /\ opts.autoRules
    BY DEF IInv, ChainInv
  <2>3. cleanup' <=> Late' /\ opts'.autoRules
    BY <1>2, <2>1, <2>2 DEF Late
  <2>4. cleanup' => ChainHas(RuleCount)' /\ (backend' = "iptables" => jumps' > 0)
    BY DEF IInv, ChainInv, ChainHas, RuleCount, Rule
  <2>5. Here' \in RuleCommands => opts'.autoRules
    BY <1>1, <1>2 DEF IInv, ChainInv, RuleCommands, Succ
  <2> QED
    BY <2>1, <2>3, <2>4, <2>5 DEF ChainInv
<1>4. DivertInv' /\ RulesRemoved'
  BY DEF IInv, DivertInv, RulesRemoved, Diverts
<1> QED
  BY <1>1, <1>3, <1>4

\* A command of the set-up that leaves the offloads alone.
LEMMA OffloadFrame ==
  ASSUME IInv, pc = "setup", todo # <<>>, todo' = Tail(todo), pc' = pc,
         Head(todo) \notin {"read", "disable"},
         opts' = opts, backend' = backend, offload' = offload, saved' = saved,
         lostOffload' = lostOffload
  PROVE  OffloadInv'
<1>1. Here = Head(todo) /\ Here \in SetupCommands /\ Here' = Succ(Here)
  BY CommandsLeft DEF IInv
<1>2. opts.restore => Here' # "disable"
  BY <1>1 DEF Succ, SetupCommands, IInv, TypeOK
<1>3. Here' \notin {"disable", "open", "end"} => Here \notin {"disable", "open", "end"}
  BY <1>1 DEF Succ, SetupCommands
<1> QED
  BY <1>2, <1>3 DEF IInv, OffloadInv
-----------------------------------------------------------------------------
\* The life of a run.

\* The host is as it was found, and there is no run.
LEMMA InitIInv == SetupInit => IInv
<1> SUFFICES ASSUME SetupInit PROVE IInv
  OBVIOUS
<1>1. TypeOK
  BY EmptySeq DEF SetupInit, TypeOK
<1>2. PlanInv /\ ChainInv /\ DivertInv /\ RulesRemoved
  BY DEF SetupInit, PlanInv, ChainInv, DivertInv, RulesRemoved
<1>3. OffloadInv
  BY DEF SetupInit, OffloadInv
<1> QED
  BY <1>1, <1>2, <1>3 DEF IInv

\* A run begins: whatever rules it finds are called leftover.
LEMMA StartStep ==
  ASSUME IInv, Start
  PROVE  IInv'
<1> USE DEF IInv, Start, hostVars
<1>1. /\ pc' = "setup" /\ opts' = opts /\ backend' = backend /\ chain' = chain
      /\ jumps' = jumps /\ offload' = offload /\ saved' = "none" /\ pc = "down"
      /\ ~cleanup' /\ (lostOffload' <=> lostOffload) /\ (leftover' <=> Diverts)
  OBVIOUS
<1>2. TypeOK'
  BY DEF TypeOK, Diverts
<1>3. Linked(todo', First, "end")
  BY PlanLinked DEF TypeOK
<1>4. Here' = First
  <2>1. First # "end"
    BY DEF First
  <2>2. todo' # <<>>
    BY <1>3, <2>1 DEF Linked
  <2>3. Head(todo') = First
    BY <1>3, <2>2, LinkedTail
  <2> QED
    BY <2>2, <2>3 DEF Here
<1>5. PlanInv'
  BY <1>1, <1>3, <1>4, LinkedPrime DEF PlanInv
<1>6. ChainInv'
  BY <1>1, <1>4 DEF ChainInv, Late, First, RuleCommands
<1>7. DivertInv' /\ RulesRemoved'
  BY <1>1 DEF DivertInv, RulesRemoved, Diverts
<1>8. OffloadInv'
  BY <1>1, <1>4 DEF OffloadInv, First
<1> QED
  BY <1>2, <1>5, <1>6, <1>7, <1>8

\* It is killed; offloads that are off then will not be restored.
LEMMA CrashStep ==
  ASSUME IInv, Crash
  PROVE  IInv'
<1> USE DEF IInv, Crash, hostVars
<1>1. /\ pc' = "down" /\ exit' = "crash" /\ opts' = opts /\ offload' = offload
      /\ lostOffload' <=> (lostOffload \/ offload = "off")
  OBVIOUS
<1>2. TypeOK'
  BY DEF TypeOK
<1>3. PlanInv' /\ ChainInv' /\ DivertInv' /\ RulesRemoved'
  BY <1>1 DEF PlanInv, ChainInv, DivertInv, RulesRemoved
<1>4. OffloadInv'
  BY <1>1 DEF OffloadInv, TypeOK
<1> QED
  BY <1>2, <1>3, <1>4

\* The set-up is complete, and the engine runs.
LEMMA RunEngineStep ==
  ASSUME IInv, RunEngine
  PROVE  IInv'
<1> USE DEF IInv, RunEngine, hostVars, history
<1>1. /\ pc = "setup" /\ pc' = "engine" /\ todo = <<>> /\ todo' = todo /\ Here' = Here
      /\ opts' = opts /\ backend' = backend /\ chain' = chain /\ jumps' = jumps
      /\ offload' = offload /\ saved' = saved /\ (cleanup' <=> cleanup)
      /\ (leftover' <=> leftover) /\ (lostOffload' <=> lostOffload)
  BY DEF Here
<1>2. TypeOK'
  BY DEF TypeOK
<1>3. PlanInv' /\ DivertInv' /\ RulesRemoved'
  BY <1>1 DEF PlanInv, DivertInv, RulesRemoved, Diverts
<1>4. ChainInv'
  BY <1>1 DEF ChainInv, Late, ChainHas, RuleCount, Rule
<1>5. OffloadInv'
  BY <1>1 DEF OffloadInv
<1> QED
  BY <1>2, <1>3, <1>4, <1>5

\* The engine returns: the deferred functions undo what is to be undone.
LEMMA EngineReturnsStep ==
  ASSUME IInv, EngineReturns
  PROVE  IInv'
<1> USE DEF IInv, EngineReturns, hostVars, history
<1>1. /\ pc = "engine" /\ pc' = "undo"
      /\ opts' = opts /\ backend' = backend /\ chain' = chain /\ jumps' = jumps
      /\ offload' = offload /\ saved' = saved /\ (cleanup' <=> cleanup)
      /\ (leftover' <=> leftover) /\ (lostOffload' <=> lostOffload)
  OBVIOUS
<1>2. TypeOK'
  BY DEF TypeOK
<1>3. /\ todo' \in Seq(UndoCommands)
      /\ Contains(todo', "restore") <=> saved # "none"
      /\ cleanup => Contains(todo', "clear")
  BY DeferredHolds DEF TypeOK
<1>4. PlanInv' /\ ChainInv' /\ RulesRemoved'
  BY <1>1, <1>3 DEF PlanInv, ChainInv, RulesRemoved
<1>5. DivertInv'
  BY <1>1, <1>3 DEF DivertInv, Diverts
<1>6. OffloadInv'
  BY <1>1, <1>3 DEF OffloadInv
<1> QED
  BY <1>2, <1>4, <1>5, <1>6

\* Everything is undone.
LEMMA ExitStep ==
  ASSUME IInv, Exit
  PROVE  IInv'
<1> USE DEF IInv, Exit, hostVars
<1>1. /\ pc = "undo" /\ pc' = "down" /\ todo = <<>>
      /\ opts' = opts /\ backend' = backend /\ chain' = chain /\ jumps' = jumps
      /\ offload' = offload /\ (cleanup' <=> cleanup) /\ (badUndo' <=> badUndo)
      /\ (leftover' <=> leftover) /\ (lostOffload' <=> lostOffload)
  OBVIOUS
<1>2. TypeOK'
  BY DEF TypeOK
<1>3. ~Contains(todo, "clear") /\ ~Contains(todo, "restore")
  BY <1>1, ContainsNone
<1>4. PlanInv' /\ ChainInv' /\ DivertInv'
  BY <1>1 DEF PlanInv, ChainInv, DivertInv
<1>5. RulesRemoved'
  BY <1>1, <1>3 DEF DivertInv, RulesRemoved, Diverts
<1>6. OffloadInv'
  BY <1>1, <1>3 DEF OffloadInv
<1> QED
  BY <1>2, <1>4, <1>5, <1>6

\* A command of the set-up has failed.
LEMMA SetupFailsStep ==
  ASSUME IInv, SetupFails
  PROVE  IInv'
<1> USE DEF IInv, SetupFails, history
<1>1. /\ pc = "setup" /\ pc' = "undo" /\ Here = Head(todo)
      /\ opts' = opts /\ backend' = backend /\ chain' = chain /\ jumps' = jumps
      /\ saved' = saved /\ (cleanup' <=> cleanup)
      /\ (leftover' <=> leftover) /\ (lostOffload' <=> lostOffload)
      /\ offload' = offload \/ (Here = "disable" /\ offload' = "off")
  BY DEF Here
<1>2. TypeOK'
  BY <1>1 DEF TypeOK
<1>3. /\ todo' \in Seq(UndoCommands)
      /\ Contains(todo', "restore") <=> saved # "none"
      /\ cleanup => Contains(todo', "clear")
  BY AfterFailureHolds DEF TypeOK
<1>4. PlanInv' /\ ChainInv' /\ RulesRemoved'
  BY <1>1, <1>3 DEF PlanInv, ChainInv, RulesRemoved
<1>5. DivertInv'
  BY <1>1, <1>3 DEF DivertInv, Diverts
<1>6. OffloadInv'
  BY <1>1, <1>3 DEF OffloadInv
<1> QED
  BY <1>2, <1>4, <1>5, <1>6
-----------------------------------------------------------------------------
\* The commands of the set-up.

\* Those that leave rules and offloads alone.
LEMMA LookStep ==
  ASSUME IInv, Look \/ AddChain
  PROVE  IInv'
<1>1. /\ pc = "setup" /\ todo # <<>> /\ todo' = Tail(todo) /\ pc' = pc
      /\ Head(todo) \in {"tools", "iface", "open", "addTable", "addChain", "newChain"}
      /\ opts' = opts /\ backend' = backend /\ chain' = chain /\ jumps' = jumps
      /\ offload' = offload /\ saved' = saved /\ cleanup' = cleanup /\ exit' = exit
      /\ leftover' = leftover /\ badUndo' = badUndo /\ lostOffload' = lostOffload
  BY DEF Look, AddChain, AtCommand, Ok, hostVars
<1>2. TypeOK'
  BY <1>1 DEF IInv, TypeOK
<1>3. PlanInv' /\ ChainInv' /\ DivertInv' /\ RulesRemoved'
  BY <1>1, RulesFrame
<1>4. OffloadInv'
  BY <1>1, OffloadFrame
<1> QED
  BY <1>2, <1>3, <1>4 DEF IInv

\* The jump is added to an empty chain.
LEMMA JumpStep ==
  ASSUME IInv, AddJump \/ AddJumpAgain
  PROVE  IInv'
<1>1. /\ pc = "setup" /\ todo # <<>> /\ todo' = Tail(todo) /\ pc' = pc
      /\ Head(todo) = "jump"
      /\ opts' = opts /\ backend' = backend /\ chain' = chain
      /\ offload' = offload /\ saved' = saved /\ cleanup' = cleanup /\ exit' = exit
      /\ leftover' = leftover /\ badUndo' = badUndo /\ lostOffload' = lostOffload
  BY DEF AddJump, AddJumpAgain, AtCommand, Ok, history
<1>2. jumps' \in Nat /\ jumps' > 0
  BY DEF AddJump, AddJumpAgain, IInv, TypeOK
<1>3. TypeOK'
  BY <1>1, <1>2 DEF IInv, TypeOK
<1>4. PlanInv' /\ Here = "jump" /\ Here' = Succ(Here)
  BY <1>1, CommandsLeft DEF IInv
<1>5. Here' = "mark" /\ ~Late /\ ~Late'
  BY <1>4 DEF Succ, Late
<1>6. ChainHas(0) /\ ~cleanup
  BY <1>1, <1>4, <1>5 DEF IInv, ChainInv
<1>7. ChainInv'
  <2>1. ChainHas(0)' /\ ~cleanup'
    BY <1>1, <1>6 DEF ChainHas
  <2>2. opts'.autoRules
    BY <1>1, <1>4 DEF IInv, ChainInv, RuleCommands
  <2> QED
    BY <1>2, <1>5, <2>1, <2>2 DEF ChainInv
<1>8. ~Diverts'
  BY <1>1, <1>6 DEF Diverts, Contains, ChainHas
<1>9. DivertInv' /\ RulesRemoved'
  BY <1>1, <1>8 DEF DivertInv, RulesRemoved
<1>10. OffloadInv'
  BY <1>1, OffloadFrame
<1> QED
  BY <1>3, <1>4, <1>7, <1>9, <1>10 DEF IInv

\* A rule is added: the chain holds the rules up to it.
LEMMA RuleStep ==
  ASSUME IInv, AddRule
  PROVE  IInv'
<1>1. /\ pc = "setup" /\ todo # <<>> /\ todo' = Tail(todo) /\ pc' = pc
      /\ Head(todo) \in {"mark", "lo", "queue"} /\ chain' = Append(chain, Head(todo))
      /\ opts' = opts /\ backend' = backend /\ jumps' = jumps
      /\ offload' = offload /\ saved' = saved /\ exit' = exit
      /\ leftover' = leftover /\ badUndo' = badUndo /\ lostOffload' = lostOffload
  BY DEF AddRule, AtCommand, Ok
<1>2. cleanup' \in BOOLEAN /\ (cleanup' <=> Head(todo) = "queue")
  BY QueueIsLast DEF AddRule, IInv, TypeOK
<1>3. /\ chain' \in Seq({"mark", "lo", "queue"}) /\ Len(chain') = Len(chain) + 1
      /\ chain'[Len(chain) + 1] = Head(todo)
      /\ \A i \in 1 .. Len(chain) : chain'[i] = chain[i]
      /\ Len(chain) \in Nat
  BY <1>1, AppendProperties, LenProperties DEF IInv, TypeOK
<1>4. TypeOK'
  BY <1>1, <1>2, <1>3 DEF IInv, TypeOK
<1>5. PlanInv' /\ Here = Head(todo) /\ Here' = Succ(Here)
  BY <1>1, CommandsLeft DEF IInv
<1>6. Here \in {"mark", "lo", "queue"} /\ ~Late /\ ~cleanup
  BY <1>1, <1>5 DEF IInv, ChainInv, Late
<1> DEFINE n == Len(chain)
<1>7. /\ n \in 0 .. RuleCount - 1 /\ ChainHas(n) /\ Head(todo) = Rule(n + 1)
      /\ Here = "queue" => n = RuleCount - 1
      /\ Here # "queue" => n + 1 \in 0 .. RuleCount - 1
  <2>1. CASE Here = "mark"
    BY <1>1, <1>3, <1>5, <2>1 DEF IInv, ChainInv, ChainHas, Rule, RuleCount
  <2>2. CASE Here = "lo"
    BY <1>1, <1>3, <1>5, <2>2 DEF IInv, ChainInv, ChainHas, Rule, RuleCount
  <2>3. CASE Here = "queue"
    BY <1>1, <1>3, <1>5, <2>3 DEF IInv, ChainInv, ChainHas, Rule, RuleCount
  <2> QED
    BY <1>6, <2>1, <2>2, <2>3
<1> HIDE DEF n
<1>8. /\ Len(chain') = n + 1
      /\ \A i \in 1 .. n + 1 : chain'[i] = Rule(i)
  BY <1>3, <1>7 DEF ChainHas, n
<1>9. RuleCount' = RuleCount /\ \A i : Rule(i)' = Rule(i)
  BY <1>1 DEF RuleCount, Rule
<1>10. opts'.autoRules /\ (backend' = "iptables" => jumps' > 0)
  BY <1>1, <1>6 DEF IInv, ChainInv, RuleCommands
<1>11. ChainInv' /\ (~cleanup' => ~Diverts')
  <2>1. CASE Here = "queue"
    <3>1. Here' \in {"iface", "open"} /\ Late' /\ cleanup'
      BY <1>2, <1>5, <2>1 DEF Succ, Late
    <3>2. Len(chain') = RuleCount /\ \A i \in 1 .. RuleCount : chain'[i] = Rule(i)
      BY <1>7, <1>8, <2>1 DEF RuleCount
    <3>3. ChainHas(RuleCount)'
      BY <1>9, <3>2 DEF ChainHas
    <3> QED
      BY <1>10, <3>1, <3>3 DEF ChainInv
  <2>2. CASE Here \in {"mark", "lo"}
    <3>1. /\ Here = "mark" => Here' = IF opts.lo THEN "lo" ELSE "queue"
          /\ Here = "lo" => Here' = "queue"
          /\ ~Late' /\ ~cleanup'
      BY <1>2, <1>5, <2>2 DEF Succ, Late
    <3>2. \A i \in 1 .. n + 1 : chain'[i] # "queue"
      BY <1>7, <1>8, <2>2 DEF Rule, RuleCount
    <3>3. ~Diverts'
      BY <1>8, <3>2 DEF Diverts, Contains
    <3>4. /\ Here' = "lo" => n = 0 /\ opts'.lo
          /\ Here' = "queue" => n + 1 = RuleCount - 1
      BY <1>1, <1>5, <1>7, <2>2, <3>1 DEF IInv, ChainInv, ChainHas, Rule, RuleCount
    <3>5. /\ Here' = "lo" => ChainHas(1)' /\ opts'.lo
          /\ Here' = "queue" => ChainHas(RuleCount - 1)'
      BY <1>8, <1>9, <3>4 DEF ChainHas
    <3> QED
      BY <1>10, <2>2, <3>1, <3>3, <3>5 DEF ChainInv
  <2> QED
    BY <1>6, <2>1, <2>2
<1>12. DivertInv' /\ RulesRemoved'
  BY <1>1, <1>11 DEF DivertInv, RulesRemoved
<1>13. OffloadInv'
  BY <1>1, OffloadFrame
<1> QED
  BY <1>4, <1>5, <1>11, <1>12, <1>13 DEF IInv
\* readOffloadState and disableOffload: what is switched off has been read before.
LEMMA OffloadStep ==
  ASSUME IInv, ReadOffload \/ ReadOffloadFails \/ (SetOffload /\ pc = "setup")
  PROVE  IInv'
<1>1. /\ pc = "setup" /\ todo # <<>> /\ todo' = Tail(todo) /\ pc' = pc
      /\ Head(todo) \in {"read", "disable", "restore"}
      /\ opts' = opts /\ backend' = backend /\ chain' = chain /\ jumps' = jumps
      /\ cleanup' = cleanup /\ exit' = exit /\ leftover' = leftover /\ badUndo' = badUndo
  BY DEF ReadOffload, ReadOffloadFails, SetOffload, AtCommand, Ok, hostVars
<1>2. PlanInv' /\ ChainInv' /\ DivertInv' /\ RulesRemoved' /\ Here = Head(todo)
      /\ Here' = Succ(Here)
  BY <1>1, RulesFrame
<1>3. Here \in {"read", "disable"}
  BY <1>1, <1>2, CommandsLeft DEF IInv, SetupCommands
<1>4. /\ Here = "read" => Here' = "disable"
      /\ Here = "disable" => Here' = "open"
  BY <1>2 DEF Succ
<1>5. CASE ReadOffload
  <2>1. Here = "read" /\ saved' = offload /\ offload' = offload /\ lostOffload' = lostOffload
    BY <1>2, <1>5 DEF ReadOffload, AtCommand, hostVars
  <2>2. TypeOK'
    BY <1>1, <2>1 DEF IInv, TypeOK
  <2>3. OffloadInv'
    BY <1>1, <1>4, <2>1 DEF IInv, TypeOK, OffloadInv
  <2> QED
    BY <1>2, <2>2, <2>3 DEF IInv
<1>6. CASE ReadOffloadFails
  <2>1. Here = "read" /\ saved' = saved /\ offload' = offload /\ lostOffload' = TRUE
    BY <1>2, <1>6 DEF ReadOffloadFails, AtCommand, hostVars
  <2>2. TypeOK'
    BY <1>1, <2>1 DEF IInv, TypeOK
  <2>3. OffloadInv'
    BY <1>1, <1>4, <2>1 DEF OffloadInv
  <2> QED
    BY <1>2, <2>2, <2>3 DEF IInv
<1>7. CASE SetOffload
  <2>1. Here = "disable" /\ saved' = saved /\ offload' = "off" /\ lostOffload' = lostOffload
    BY <1>2, <1>3, <1>7 DEF SetOffload, AtCommand
  <2>2. TypeOK'
    BY <1>1, <2>1 DEF IInv, TypeOK
  <2>3. OffloadInv'
    BY <1>1, <1>4, <2>1 DEF IInv, OffloadInv
  <2> QED
    BY <1>2, <2>2, <2>3 DEF IInv
<1> QED
  BY <1>5, <1>6, <1>7

-----------------------------------------------------------------------------
\* Clearing the chain, in the set-up or in the clean-up.

\* One of several rules is deleted.
LEMMA DeleteRuleStep ==
  ASSUME IInv, DeleteRule
  PROVE  IInv'
<1>1. /\ pc \in {"setup", "undo"} /\ todo # <<>> /\ Head(todo) = "clear"
      /\ chain # <<>> /\ chain' = Tail(chain) /\ Here = "clear"
      /\ pc' = pc /\ todo' = todo /\ Here' = Here
      /\ opts' = opts /\ backend' = backend /\ jumps' = jumps
      /\ offload' = offload /\ saved' = saved /\ cleanup' = cleanup /\ exit' = exit
      /\ leftover' = leftover /\ badUndo' = badUndo /\ lostOffload' = lostOffload
  BY DEF DeleteRule, AtCommand, runVars, history, Here
<1>2. TypeOK'
  BY <1>1, ContainsTail DEF IInv, TypeOK
<1>3. PlanInv'
  BY <1>1, LinkedPrime DEF IInv, PlanInv
<1>4. ~Late /\ ~Late'
  BY <1>1 DEF Late
<1>5. ChainInv'
  BY <1>1, <1>4 DEF IInv, ChainInv
<1>6. Diverts' => Diverts
  BY <1>1, FewerRules DEF IInv, TypeOK
<1>7. DivertInv' /\ RulesRemoved'
  BY <1>1, <1>6 DEF IInv, DivertInv, RulesRemoved
<1>8. OffloadInv'
  BY <1>1 DEF IInv, OffloadInv
<1> QED
  BY <1>2, <1>3, <1>5, <1>7, <1>8 DEF IInv

\* The chain is empty.
LEMMA ClearDoneStep ==
  ASSUME IInv, ClearDone
  PROVE  IInv'
<1>1. /\ pc \in {"setup", "undo"} /\ todo # <<>> /\ Head(todo) = "clear"
      /\ chain' = <<>> /\ pc' = pc /\ todo' = Tail(todo)
      /\ opts' = opts /\ backend' = backend /\ jumps' = jumps
      /\ offload' = offload /\ saved' = saved /\ cleanup' = cleanup /\ exit' = exit
      /\ leftover' = leftover /\ badUndo' = badUndo /\ lostOffload' = lostOffload
  BY DEF ClearDone, AtCommand, Ok
<1>2. TypeOK'
  BY <1>1, EmptySeq DEF IInv, TypeOK
<1>3. ~Diverts'
  BY <1>1, ContainsNone DEF Diverts
<1>4. DivertInv' /\ RulesRemoved'
  BY <1>1, <1>3 DEF DivertInv, RulesRemoved
<1>5. CASE pc = "setup"
  <2>1. PlanInv' /\ Here = "clear" /\ Here' = Succ(Here)
    BY <1>1, <1>5, CommandsLeft DEF IInv
  <2>2. Here' = (IF backend = "nft" THEN "mark" ELSE "jump") /\ ~Late /\ ~Late'
    BY <2>1 DEF Succ, Late
  <2>3. ~cleanup' /\ opts'.autoRules
    BY <1>1, <1>5, <2>1, <2>2 DEF IInv, ChainInv, RuleCommands
  <2>4. ChainHas(0)'
    BY <1>1, EmptySeq DEF ChainHas
  <2>5. ChainInv'
    <3>1. Here' = "mark" => backend' = "nft"
      BY <1>1, <2>2
    <3> QED
      BY <2>2, <2>3, <2>4, <3>1 DEF ChainInv
  <2>6. OffloadInv'
    BY <1>1, <1>5, OffloadFrame
  <2> QED
    BY <1>2, <1>4, <2>1, <2>5, <2>6 DEF IInv
<1>6. CASE pc = "undo"
  <2>1. /\ PlanInv'
        /\ \A c : /\ Contains(todo', c) => Contains(todo, c)
                  /\ Contains(todo, c) /\ Head(todo) # c => Contains(todo', c)
    BY <1>1, <1>6, UndoNext DEF IInv
  <2>2. ChainInv'
    BY <1>1, <1>6 DEF ChainInv
  <2>3. OffloadInv'
    BY <1>1, <1>6, <2>1 DEF IInv, OffloadInv
  <2> QED
    BY <1>2, <1>4, <2>1, <2>2, <2>3 DEF IInv
<1> QED
  BY <1>1, <1>5, <1>6

-----------------------------------------------------------------------------
\* The commands that undo.

\* A jump is removed.
LEMMA DeleteJumpStep ==
  ASSUME IInv, DeleteJump
  PROVE  IInv'
<1>1. /\ pc = "undo" /\ pc' = pc /\ todo' = todo /\ chain' = chain
      /\ opts' = opts /\ backend' = backend
      /\ offload' = offload /\ saved' = saved /\ cleanup' = cleanup /\ exit' = exit
      /\ leftover' = leftover /\ badUndo' = badUndo /\ lostOffload' = lostOffload
  BY DEF DeleteJump, AtCommand, runVars, history
<1>2. jumps' \in Nat /\ jumps' <= jumps
  BY DEF DeleteJump, IInv, TypeOK
<1>3. TypeOK'
  BY <1>1, <1>2 DEF IInv, TypeOK
<1>4. PlanInv' /\ ChainInv'
  BY <1>1 DEF IInv, PlanInv, ChainInv
<1>5. Diverts' => Diverts
  BY <1>1, <1>2, FewerRules DEF IInv
<1>6. DivertInv' /\ RulesRemoved'
  BY <1>1, <1>5 DEF IInv, DivertInv, RulesRemoved
<1>7. OffloadInv'
  BY <1>1 DEF IInv, OffloadInv
<1> QED
  BY <1>3, <1>4, <1>6, <1>7 DEF IInv

\* The commands that change no rule in force, and the failing ones.
LEMMA UndoStep ==
  ASSUME IInv, DeleteJumpDone \/ DropChain \/ UndoFails \/ (SetOffload /\ pc = "undo")
  PROVE  IInv'
<1>1. /\ pc = "undo" /\ todo # <<>> /\ todo' = Tail(todo) /\ pc' = pc
      /\ opts' = opts /\ backend' = backend /\ chain' = chain /\ jumps' = jumps
      /\ saved' = saved /\ cleanup' = cleanup /\ exit' = exit /\ leftover' = leftover
  BY DEF DeleteJumpDone, DropChain, UndoFails, SetOffload, AtCommand, Ok, hostVars
<1>2. /\ PlanInv' /\ Head(todo) \in UndoCommands
      /\ \A c : /\ Contains(todo', c) => Contains(todo, c)
                /\ Contains(todo, c) /\ Head(todo) # c => Contains(todo', c)
  BY <1>1, UndoNext DEF IInv
<1>3. ChainInv' /\ RulesRemoved'
  BY <1>1 DEF ChainInv, RulesRemoved
<1>4. Diverts' <=> Diverts
  BY <1>1 DEF Diverts
<1>5. CASE DeleteJumpDone \/ DropChain
  <2>1. /\ Head(todo) \in {"unjump", "dropChain"}
        /\ offload' = offload /\ badUndo' = badUndo /\ lostOffload' = lostOffload
    BY <1>5 DEF DeleteJumpDone, DropChain, AtCommand, hostVars
  <2>2. TypeOK'
    BY <1>1, <2>1 DEF IInv, TypeOK
  <2>3. DivertInv'
    BY <1>1, <1>2, <1>4, <2>1 DEF IInv, DivertInv
  <2>4. OffloadInv'
    BY <1>1, <1>2, <2>1 DEF IInv, OffloadInv
  <2> QED
    BY <1>2, <1>3, <2>2, <2>3, <2>4 DEF IInv
<1>6. CASE UndoFails
  <2>1. /\ badUndo' = TRUE /\ offload' = offload
        /\ lostOffload' \in BOOLEAN
        /\ lostOffload' <=> (lostOffload \/ Head(todo) = "restore")
    BY <1>6 DEF UndoFails, hostVars
  <2>2. TypeOK'
    BY <1>1, <2>1 DEF IInv, TypeOK
  <2>3. DivertInv'
    BY <1>1, <1>4, <2>1 DEF IInv, DivertInv
  <2>4. OffloadInv'
    BY <1>1, <1>2, <2>1 DEF IInv, OffloadInv
  <2> QED
    BY <1>2, <1>3, <2>2, <2>3, <2>4 DEF IInv
<1>7. CASE SetOffload
  <2>1. /\ Head(todo) = "restore" /\ offload' = saved
        /\ badUndo' = badUndo /\ lostOffload' = lostOffload
    BY <1>2, <1>7 DEF SetOffload, AtCommand, UndoCommands
  <2>2. saved # "none"
    <3>1. Contains(todo, "restore")
      <4>1. todo \in Seq(UndoCommands)
        BY <1>1 DEF IInv, PlanInv
      <4>2. 1 \in 1 .. Len(todo) /\ Head(todo) = todo[1]
        BY <1>1, <4>1, EmptySeq, LenProperties
      <4> QED
        BY <2>1, <4>2 DEF Contains
    <3> QED
      BY <1>1, <3>1 DEF IInv, OffloadInv
  <2>3. TypeOK'
    BY <1>1, <2>1, <2>2 DEF IInv, TypeOK
  <2>4. DivertInv'
    BY <1>1, <1>2, <1>4, <2>1 DEF IInv, DivertInv
  <2>5. OffloadInv'
    BY <1>1, <1>2, <2>1, <2>2 DEF IInv, TypeOK, OffloadInv
  <2> QED
    BY <1>2, <1>3, <2>3, <2>4, <2>5 DEF IInv
<1> QED
  BY <1>5, <1>6, <1>7
-----------------------------------------------------------------------------
\* Every step, or none, keeps the invariant.
LEMMA NextIInv == IInv /\ [SetupNext]_setupVars => IInv'
<1> SUFFICES ASSUME IInv, [SetupNext]_setupVars PROVE IInv'
  OBVIOUS
<1>1. CASE Command
  <2>1. CASE Look \/ AddChain
    BY <2>1, LookStep
  <2>2. CASE DeleteRule
    BY <2>2, DeleteRuleStep
  <2>3. CASE ClearDone
    BY <2>3, ClearDoneStep
  <2>4. CASE AddJump \/ AddJumpAgain
    BY <2>4, JumpStep
  <2>5. CASE AddRule
    BY <2>5, RuleStep
  <2>6. CASE ReadOffload \/ ReadOffloadFails
    BY <2>6, OffloadStep
  <2>7. CASE SetOffload
    <3>1. pc = "setup" \/ pc = "undo"
      BY <2>7 DEF SetOffload, AtCommand
    <3> QED
      BY <2>7, <3>1, OffloadStep, UndoStep
  <2>8. CASE DeleteJump
    BY <2>8, DeleteJumpStep
  <2>9. CASE DeleteJumpDone \/ DropChain \/ UndoFails
    BY <2>9, UndoStep
  <2>10. CASE SetupFails
    BY <2>10, SetupFailsStep
  <2> QED
    BY <1>1, <2>1, <2>2, <2>3, <2>4, <2>5, <2>6, <2>7, <2>8, <2>9, <2>10 DEF Command
<1>2. CASE UNCHANGED setupVars
  <2>1. /\ pc' = pc /\ todo' = todo /\ opts' = opts /\ backend' = backend
        /\ chain' = chain /\ jumps' = jumps /\ offload' = offload /\ saved' = saved
        /\ cleanup' = cleanup /\ exit' = exit /\ leftover' = leftover
        /\ badUndo' = badUndo /\ lostOffload' = lostOffload
    BY <1>2 DEF setupVars, hostVars, runVars, history
  <2>2. TypeOK'
    BY <2>1 DEF IInv, TypeOK
  <2>3. Here' = Here
    BY <2>1 DEF Here
  <2>4. PlanInv'
    BY <2>1, <2>3, LinkedPrime DEF IInv, PlanInv
  <2>5. ChainInv'
    BY <2>1, <2>3 DEF IInv, ChainInv, Late, ChainHas, RuleCount, Rule
  <2>6. DivertInv' /\ RulesRemoved'
    BY <2>1 DEF IInv, DivertInv, RulesRemoved, Diverts
  <2>7. OffloadInv'
    BY <2>1, <2>3 DEF IInv, OffloadInv
  <2> QED
    BY <2>2, <2>4, <2>5, <2>6, <2>7 DEF IInv
<1> QED
  BY <1>1, <1>2, StartStep, CrashStep, RunEngineStep, EngineReturnsStep, ExitStep DEF SetupNext

\* IInv is an invariant of the program on its host.
THEOREM Invariance == SetupSpec => []IInv
<1>1. SetupInit => IInv
  BY InitIInv
<1>2. IInv /\ [SetupNext]_setupVars => IInv'
  BY NextIInv
<1> QED
  BY <1>1, <1>2, PTL DEF SetupSpec

\* While the engine runs with rules that installRules made, every packet passes the
\* mark rule, and the loopback rule if there is one, before the queue rule.
THEOREM BypassAlwaysFirst == SetupSpec => []BypassBeforeQueue
<1>1. ASSUME IInv, pc = "engine", opts.autoRules
      PROVE  /\ Diverts
             /\ \A i \in DOMAIN chain : chain[i] = "queue" =>
                  /\ \E j \in 1 .. i - 1 : chain[j] = "mark"
                  /\ opts.lo => \E j \in 1 .. i - 1 : chain[j] = "lo"
  <2>1. Here = "end"
    BY <1>1 DEF IInv, PlanInv, Here
  <2>2. cleanup
    BY <1>1, <2>1 DEF IInv, ChainInv, Late
  <2>3. ChainHas(RuleCount) /\ (backend = "iptables" => jumps > 0)
    BY <1>1, <2>2 DEF IInv, ChainInv
  <2>4. DOMAIN chain = 1 .. RuleCount
    BY <1>1, <2>3, LenProperties DEF IInv, TypeOK, ChainHas
  <2>5. Diverts
    <3>1. RuleCount \in 1 .. Len(chain) /\ chain[RuleCount] = "queue"
      BY <2>3 DEF ChainHas, RuleCount, Rule
    <3> QED
      BY <2>3, <3>1 DEF Diverts, Contains
  <2>6. ASSUME NEW i \in 1 .. RuleCount, chain[i] = "queue"
        PROVE  /\ \E j \in 1 .. i - 1 : chain[j] = "mark"
               /\ opts.lo => \E j \in 1 .. i - 1 : chain[j] = "lo"
    <3>1. i = RuleCount
      BY <2>3, <2>6 DEF ChainHas, RuleCount, Rule
    <3>2. 1 \in 1 .. i - 1 /\ chain[1] = "mark"
      BY <2>3, <3>1 DEF ChainHas, RuleCount, Rule
    <3>3. opts.lo => 2 \in 1 .. i - 1 /\ chain[2] = "lo"
      BY <2>3, <3>1 DEF ChainHas, RuleCount, Rule
    <3> QED
      BY <3>2, <3>3
  <2> QED
    BY <2>4, <2>5, <2>6
<1>2. IInv => BypassBeforeQueue
  BY <1>1 DEF BypassBeforeQueue
<1> QED
  BY Invariance, <1>2, PTL

\* A run that ends by itself leaves none of its rules in force, on the error paths of
\* the set-up too.
THEOREM RulesAlwaysRemoved == SetupSpec => []RulesRemoved
<1>1. IInv => RulesRemoved
  BY DEF IInv
<1> QED
  BY Invariance, <1>1, PTL

\* And it leaves the offloads as the first run found them, unless they could not be
\* read or set, or a run was killed while they were off.
THEOREM OffloadAlwaysRestored == SetupSpec => []OffloadRestored
<1>1. IInv => OffloadRestored
  BY DEF IInv, OffloadInv, OffloadRestored
<1> QED
  BY Invariance, <1>1, PTL
=============================================================================
