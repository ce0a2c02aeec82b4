------------------------------ MODULE PbAdvSeg ------------------------------
(***************************************************************************)
(* Segmentation arithmetic of the PB-ADV bearer (subsys/bluetooth/mesh/    *)
(* pb_adv.c): how prov_send_adv cuts a provisioning PDU into a Start frame *)
(* and Continuation frames, the last-segment index it announces, and the   *)
(* length checks gen_prov_start and gen_prov_cont apply on receipt.        *)
(* The operators are used by PbAdv; PbAdvSegSweep checks them on their    *)
(* own by sweeping every PDU length.                                       *)
(***************************************************************************)
EXTENDS Integers, Sequences, SequencesExt

\* The #defines of pb_adv.c.
START_PAYLOAD_MAX == 20
CONT_PAYLOAD_MAX  == 23
TX_BUF_COUNT      == 3      \* ARRAY_SIZE(pb_link.tx.buf)
RX_BUF_SIZE       == 65     \* NET_BUF_SIMPLE_DEFINE_STATIC(rx_buf, 65)

MinOf(a, b) == IF a <= b THEN a ELSE b

\* last_seg(): the index of the final segment announced in the Start frame.
\* Its parameter is a uint8_t, so the PDU length is truncated to 8 bits.
last_seg(len) ==
    LET l == len % 256
    IN  IF l <= START_PAYLOAD_MAX THEN 0
        ELSE 1 + ((l - START_PAYLOAD_MAX) \div CONT_PAYLOAD_MAX)

\* The payload lengths of the Continuation frames the loop of
\* prov_send_adv builds from the rem bytes left after the Start frame.
RECURSIVE ContLens(_)
ContLens(rem) ==
    IF rem = 0 THEN <<>>
    ELSE LET seg_len == MinOf(rem, CONT_PAYLOAD_MAX)
         IN  <<seg_len>> \o ContLens(rem - seg_len)

\* The payload length of every frame prov_send_adv would build, Start first.
SendSegments(len) ==
    LET seg_len == MinOf(len, START_PAYLOAD_MAX)
    IN  <<seg_len>> \o ContLens(len - seg_len)

\* prov_send_adv fails with -E2BIG when a frame would need seg_id >= 3.
TooBig(len) == Len(SendSegments(len)) > TX_BUF_COUNT

\* The length checks gen_prov_start applies to a Start frame announcing
\* last segment lastSeg and total length total: not zero, fits rx_buf, and
\* a multi-segment PDU is longer than one Start payload.
StartLenValid(lastSeg, total) ==
    /\ total >= 1
    /\ total <= RX_BUF_SIZE
    /\ ~(lastSeg > 0 /\ total <= START_PAYLOAD_MAX)

\* expect_len of gen_prov_cont: the length the final Continuation must
\* have, computed in uint8_t arithmetic.
ExpectLastLen(total, lastSeg) ==
    (total - START_PAYLOAD_MAX - (lastSeg - 1) * CONT_PAYLOAD_MAX) % 256


-----------------------------------------------------------------------------
(* Reference definition, from the segment-count formula of the bearer's    *)
(* specification: 1 + ceil(max(0, len - 20) / 23) frames.                  *)
SpecSegCount(len) ==
    LET rest == IF len > START_PAYLOAD_MAX THEN len - START_PAYLOAD_MAX ELSE 0
    IN  1 + (rest + CONT_PAYLOAD_MAX - 1) \div CONT_PAYLOAD_MAX
=============================================================================
