---------------------------- MODULE PbAdvSegSweep ----------------------------
(***************************************************************************)
(* Checks the segmentation operators of PbAdvSeg for every PDU length from *)
(* 1 to MaxLen: the sweep visits one length per state.                     *)
(***************************************************************************)
EXTENDS Integers, Sequences, SequencesExt, PbAdvSeg

CONSTANT MaxLen            \* longest PDU length the sweep visits
ASSUME MaxLen \in Nat /\ MaxLen >= 1

VARIABLE len    \* the PDU length handed to prov_send_adv

Init == len = 1

\* Move the sweep to the next PDU length.
NextLen == len < MaxLen /\ len' = len + 1

Spec == Init /\ [][NextLen]_len

\* A PDU that prov_send_adv accepts and rx_buf can hold arrives intact:
\* the receiver expects exactly the frames that were built (last_seg + 1
\* of them), accepts the Start frame's lengths, and the final
\* Continuation has the length gen_prov_cont checks for.
RoundTrip ==
    LET segs == SendSegments(len)
        ls   == last_seg(len)
    IN  (~TooBig(len) /\ len <= RX_BUF_SIZE) =>
            /\ Len(segs) = ls + 1
            /\ StartLenValid(ls, len)
            /\ ls > 0 => segs[Len(segs)] = ExpectLastLen(len, ls)
=============================================================================
