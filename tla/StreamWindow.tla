------------------------------ MODULE StreamWindow ------------------------------
(***************************************************************************)
(* What the reassembly buffer of internal/reassembly promises, without its *)
(* segment list: a window of MaxBytes stream offsets, some of which hold a *)
(* byte.  A fragment is either refused whole or stored whole; the bytes of *)
(* the contiguous prefix are never rewritten, the ones beyond it take the  *)
(* value of the newest fragment.                                           *)
(*                                                                         *)
(* Reassembly.tla shows that the Go data structure implements this window; *)
(* Worker.tla uses the operators of WindowOps.tla in place of the buffer.  *)
(***************************************************************************)
EXTENDS WindowOps, Sequences

CONSTANTS
  MaxBytes,      \* Config.MaxBufferBytes as given to reassembly.New
  BaseSeq,       \* sequence number of offset 0
  Byte,          \* the values a payload byte can have
  MaxFragment    \* longest fragment of the model

\* The offset of a sequence number, in the arithmetic of uint32.
Offset(seq) == (seq - BaseSeq) % SeqSpace

-----------------------------------------------------------------------------
VARIABLES bytes,            \* the stored bytes: a function on offsets
          outOfOrder, overlap,
          answer            \* the last answer of Push

winVars == <<bytes, outOfOrder, overlap, answer>>

WinInit ==
  /\ bytes = [o \in {} |-> 0]
  /\ outOfOrder = FALSE
  /\ overlap = FALSE
  /\ answer = "none"

\* One fragment: refused, ignored as already delivered, or stored.
Accept(seq, payload) ==
  LET off == Offset(seq)
      len == Len(payload)
      S   == DOMAIN bytes
      c   == PrefixLen(S, MaxBytes)
      newer(o) == o >= c /\ o \in off .. off + len - 1
  IN /\ answer' = PushResult(S, MaxBytes, off, len)
     /\ bytes' = [o \in PushOffsets(S, MaxBytes, off, len) |->
                    IF answer' = "stored" /\ newer(o) THEN payload[o - off + 1]
                    ELSE bytes[o]]
     /\ outOfOrder' = (outOfOrder \/ PushOutOfOrder(S, MaxBytes, off, len))
     /\ overlap' = (overlap \/ PushOverlaps(S, MaxBytes, off, len))

WinNext ==
  \E seq \in 0 .. SeqSpace - 1, len \in 1 .. MaxFragment :
    \E payload \in [1 .. len -> Byte] : Accept(seq, payload)

WinSpec == WinInit /\ [][WinNext]_winVars
=============================================================================
