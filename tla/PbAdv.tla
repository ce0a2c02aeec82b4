------------------------------- MODULE PbAdv -------------------------------
(***************************************************************************)
(* The PB-ADV provisioning bearer of subsys/bluetooth/mesh/pb_adv.c, run   *)
(* by two nodes, a provisioner and an unprovisioned device, over a radio   *)
(* that loses advertising frames.  A receiver scans one sender's frames in *)
(* the order they were advertised, so each direction is a lossy FIFO.      *)
(*                                                                         *)
(* Each node's static struct pb_adv pb_link is the record node[n]; every   *)
(* C function that changes it is an operator from such a record to the     *)
(* next one, so that a handler calling several of them in sequence is the  *)
(* composition of those operators, applied in the order of the code.       *)
(* Each node also has its advertiser queue (bt_mesh_adv_send), modelled    *)
(* as the field advq, and the delayable work items tx.retransmit and       *)
(* prot_timer, modelled as "armed" flags.  The provisioning layer above    *)
(* (prov.c, not part of this code) is the environment: it opens, accepts,  *)
(* sends and closes; what the bearer reports back to it is kept in up.     *)
(***************************************************************************)
EXTENDS Integers, Sequences, SequencesExt, FiniteSets, Bitwise, PbAdvSeg

CONSTANTS
    Prov, Dev,          \* the two nodes
    LinkIds,            \* values bt_rand may produce for a link ID (not 0)
    Uuids, DevUuid,     \* device UUIDs a Link Open may name; the device's own
    PduLens,            \* lengths of the PDUs prov.c hands to send()
    MaxSends,           \* PDUs each node's upper layer sends, at most
    AdvBufCount,        \* advertising buffers in each node's pool
    MaxAllocFails,      \* allocations failing because others hold the pool
    XactTimeout,        \* TRANSACTION_TIMEOUT / RETRANSMIT_TIMEOUT
    MaxInFlight,        \* frames of one sender on the air at once, at most
    Alternate           \* prov.c answers: on each link, a node sends its k-th
                        \* PDU once it has received the peer's k-th (the
                        \* provisioner: k-1-th)

Nodes == {Prov, Dev}
Peer(n) == IF n = Prov THEN Dev ELSE Prov

ASSUME /\ LinkIds \subseteq Nat \ {0} /\ DevUuid \in Uuids
       /\ PduLens \subseteq 1..RX_BUF_SIZE
       /\ \A l \in PduLens : ~TooBig(l)
       /\ MaxSends \in Nat /\ AdvBufCount \in Nat \ {0}
       /\ MaxAllocFails \in Nat /\ XactTimeout \in Nat /\ MaxInFlight \in Nat
       /\ Alternate \in BOOLEAN

XACT_ID_MAX  == 127
XACT_ID_NVAL == 255
SEG_NVAL     == 255

\* prov_bearer_link_status
SUCCESS == 0
TIMEOUT == 1
FAIL    == 2

\* The bits of pb_link.flags.
Flags == {"ACTIVE", "ACK_RECVD", "CLOSING", "INVALID", "ACK_PENDING",
          "PROVISIONER"}

\* A provisioning PDU handed to send(): who sent it, its ordinal, its length.
\* Its identity stands for its bytes, and so for its FCS.
Msgs  == [src : Nodes, k : 1..MaxSends, len : PduLens]
NoMsg == [src |-> Prov, k |-> 0, len |-> 0]

\* One advertising frame.  kind is the GPCF and, for bearer control, the
\* opcode; seg is the last segment index of a Start and the segment index
\* of a Continuation; arg is the UUID of an Open and the reason of a Close.
Frame(n, lid, x, kind, seg, total, fcs, data, dlen, arg) ==
    [src |-> n, link |-> lid, xact |-> x, kind |-> kind, seg |-> seg,
     total |-> total, fcs |-> fcs, data |-> data, dlen |-> dlen, arg |-> arg]
CtlFrame(n, lid, kind, arg) == Frame(n, lid, 0, kind, 0, 0, NoMsg, NoMsg, 0, arg)
AckFrame(n, lid, x)         == Frame(n, lid, x, "ack", 0, 0, NoMsg, NoMsg, 0, 0)

\* The frames prov_send_adv builds for PDU m as transaction x of link lid.
TxFrames(n, lid, x, m) ==
    LET segs == SendSegments(m.len)
    IN  [i \in 1..Len(segs) |->
           IF i = 1 THEN Frame(n, lid, x, "start", last_seg(m.len), m.len,
                               m, m, segs[1], 0)
           ELSE Frame(n, lid, x, "cont", i - 1, 0, NoMsg, m, segs[i], 0)]

VARIABLES
    node,       \* node[n]: n's pb_link, advertiser queue, timers, and up,
                \* what its bearer reported to prov.c
    chan,       \* chan[n]: frames n advertised, not yet scanned nor lost
    usedIds,    \* link IDs already used, so bt_rand returns a fresh one
    allocFails  \* allocations failed so far for lack of a buffer

vars == <<node, chan, usedIds, allocFails>>

-----------------------------------------------------------------------------
(* The zero-initialised static pb_link, with pb_adv_init done.             *)
RxInit == [id |-> 0, seg |-> 0, lastSeg |-> 0, fcs |-> NoMsg, len |-> 0,
           buf |-> [i \in 0..TX_BUF_COUNT - 1 |-> NoMsg]]
TxInit == [id |-> 0, pendingAck |-> 0, bufs |-> <<>>, cb |-> NoMsg,
           elapsed |-> 0]
\* up: opened between link_opened and link_closed; the PDUs sent, those
\* delivered by recv, and those whose send-complete callback ran, over all
\* links; how many were sent and delivered on the current link; whether
\* error ran.  closeReq: prov.c has asked for the link to be closed.
UpInit == [opened |-> FALSE, closeReq |-> FALSE, sent |-> <<>>,
           delivered |-> <<>>, done |-> <<>>, nSent |-> 0, nDlv |-> 0,
           error |-> FALSE]
NodeInit == [id |-> 0, flags |-> {}, cb |-> FALSE, rx |-> RxInit,
             tx |-> TxInit, advq |-> <<>>, retransmit |-> FALSE,
             protTimer |-> FALSE, up |-> UpInit, badFcs |-> FALSE]

-----------------------------------------------------------------------------
(* Helpers over one node's record s.                                       *)
Has(s, f) == f \in s.flags

\* next_transaction_id(): 7-bit increment keeping the role bit.
next_transaction_id(id) == ((id + 1) & XACT_ID_MAX) | (id & (XACT_ID_MAX + 1))

BIT(i) == 2^i
IsSet(x, i) == (x & BIT(i)) /= 0

\* find_msb_set(): 1-based index of the most significant set bit, 0 for 0.
find_msb_set(x) ==
    IF x = 0 THEN 0 ELSE CHOOSE i \in 1..8 : BIT(i - 1) <= x /\ x < BIT(i)

\* A tx buffer is busy while it waits in the advertiser queue.
Busy(s, f) == \E i \in 1..Len(s.advq) : s.advq[i] = [f |-> f, cb |-> "reliable"]

\* Buffers of the pool held by this node: queued ones and idle tx buffers.
InUse(s) == Len(s.advq) +
            Cardinality({i \in 1..Len(s.tx.bufs) : ~Busy(s, s.tx.bufs[i])})

\* adv_buf_create() succeeds unless the pool is exhausted or, fail, held by
\* other users for longer than BUF_TIMEOUT.
CanAlloc(s, fail) == InUse(s) < AdvBufCount /\ ~fail

\* bt_mesh_adv_send(): queue frame f with send callbacks cb.
AdvSend(s, f, cb) == [s EXCEPT !.advq = Append(@, [f |-> f, cb |-> cb])]

\* free_segments(): release the tx buffers; a busy one is marked cancelled,
\* so the advertiser drops it without sending it.
free_segments(s) ==
    [s EXCEPT !.tx.bufs = <<>>,
              !.advq = SelectSeq(@, LAMBDA e : e.cb /= "reliable")]

\* prov_clear_tx(): cancel the retransmit work and free the segments.
prov_clear_tx(s) == [free_segments(s) EXCEPT !.retransmit = FALSE]

\* reset_adv_link(): the provisioner zeroes pb_link up to tx.retransmit; the
\* device only clears the link ID and flags and resets the transaction IDs.
\* Either way rx_buf's bytes stay as they are.
reset_adv_link(s) ==
    LET c == [prov_clear_tx(s) EXCEPT !.protTimer = FALSE]
        z == IF Has(s, "PROVISIONER")
             THEN [c EXCEPT !.id = 0, !.flags = {}, !.cb = FALSE,
                     !.rx = [RxInit EXCEPT !.id = XACT_ID_NVAL,
                                           !.buf = s.rx.buf],
                     !.tx = TxInit]
             ELSE [c EXCEPT !.id = 0, !.flags = {},
                     !.rx.id = XACT_ID_MAX, !.tx.id = XACT_ID_NVAL]
    IN  [z EXCEPT !.tx.pendingAck = XACT_ID_NVAL, !.rx.len = 0]

\* ack_pending()
ack_pending(s) == Has(s, "ACK_PENDING")

\* Bits 0..k-1 set: ((1 << k) - 1) as it ends up in the uint8_t rx.seg.
LowMask(k) == IF k >= 8 THEN 255 ELSE BIT(k) - 1

\* prov_failed(): report the error upward and invalidate the link.
prov_failed(s) == [s EXCEPT !.up.error = TRUE, !.flags = @ \cup {"INVALID"}]

\* close_link(): reset the link, then report link_closed to prov.c.
close_link(s) == [reset_adv_link(s) EXCEPT !.up.opened = FALSE,
                                           !.up.closeReq = FALSE,
                                           !.up.nSent = 0, !.up.nDlv = 0]

\* bt_mesh_fcs_check() over rx.len bytes of rx_buf: passes when those bytes
\* are the PDU whose FCS the Start frame carried.
FcsOK(s) ==
    /\ s.rx.fcs /= NoMsg
    /\ s.rx.len = s.rx.fcs.len
    /\ \A i \in 0..SpecSegCount(s.rx.len) - 1 : s.rx.buf[i] = s.rx.fcs

\* send_reliable(): queue every tx buffer that is not busy, re-arm the
\* retransmit work.
send_reliable(s) ==
    [s EXCEPT !.advq = @ \o [i \in 1..Len(SelectSeq(s.tx.bufs,
                                          LAMBDA f : ~Busy(s, f))) |->
                  [f |-> SelectSeq(s.tx.bufs, LAMBDA f : ~Busy(s, f))[i],
                   cb |-> "reliable"]],
              !.retransmit = TRUE]

\* bearer_ctl_send() with a buffer: frame f becomes the only tx buffer,
\* the transaction clock restarts, and it is sent reliably.
bearer_ctl_send(s, f) ==
    send_reliable([prov_clear_tx(s) EXCEPT !.protTimer = TRUE,
                                           !.tx.elapsed = 0,
                                           !.tx.bufs = <<f>>])

\* bearer_ctl_send_unacked() with a buffer: sent once, buf_sent runs when
\* it has been.
bearer_ctl_send_unacked(s, f) ==
    AdvSend([prov_clear_tx(s) EXCEPT !.protTimer = TRUE], f, "sent")

\* gen_prov_ack_send(): send a Transaction Ack for x unless the same ack is
\* already pending; only a first pending ack gets the ack_complete callback.
gen_prov_ack_send(n, s, x, fail) ==
    LET pending == ack_pending(s)
        s1 == [s EXCEPT !.flags = @ \cup {"ACK_PENDING"}]
    IN  IF pending /\ s.tx.pendingAck = x THEN s1
        ELSE IF ~CanAlloc(s1, fail) THEN [s1 EXCEPT !.flags = @ \ {"ACK_PENDING"}]
        ELSE IF pending THEN AdvSend(s1, AckFrame(n, s.id, x), "none")
        ELSE AdvSend([s1 EXCEPT !.tx.pendingAck = x], AckFrame(n, s.id, x), "ack")

\* prov_msg_recv(): a reassembled PDU; check its FCS, ack it, deliver it.
prov_msg_recv(n, s, fail) ==
    LET s1 == [s EXCEPT !.protTimer = TRUE]
        s2 == gen_prov_ack_send(n, s1, s1.rx.id, fail)
    IN  IF ~FcsOK(s1) THEN [s1 EXCEPT !.badFcs = TRUE]
        ELSE IF Has(s2, "INVALID") THEN prov_failed(s2)
        ELSE [s2 EXCEPT !.up.delivered = Append(@, s2.rx.fcs),
                        !.up.nDlv = @ + 1]

\* prov_link_close(): once per link, set CLOSING and send Link Close; when
\* no buffer is available the error is ignored.
prov_link_close(n, s, status, fail) ==
    LET s1 == [s EXCEPT !.flags = @ \cup {"CLOSING"}]
    IN  IF Has(s, "CLOSING") THEN s
        ELSE IF ~CanAlloc(s1, fail) THEN s1
        ELSE bearer_ctl_send_unacked(s1, CtlFrame(n, s.id, "close", status))

-----------------------------------------------------------------------------
(* Receive handlers.                                                       *)

\* gen_prov_cont(): a Continuation frame f.
gen_prov_cont(n, s, f, fail) ==
    LET seg  == f.seg
        lost == s.rx.seg = 0 /\ next_transaction_id(s.rx.id) = f.xact
        s1   == IF lost
                THEN [prov_clear_tx(s) EXCEPT !.rx.id = f.xact, !.rx.len = 0,
                                              !.rx.seg = SEG_NVAL,
                                              !.rx.lastSeg = SEG_NVAL]
                ELSE s
        s2   == [s1 EXCEPT !.rx.buf[seg] = f.data,
                           !.rx.seg = @ & (255 - BIT(seg))]
    IN  IF s.rx.seg = 0 /\ s.rx.id = f.xact
        THEN IF ~ack_pending(s) THEN gen_prov_ack_send(n, s, f.xact, fail) ELSE s
        ELSE IF ~lost /\ f.xact /= s.rx.id THEN s
        ELSE IF seg > s1.rx.lastSeg THEN prov_failed(s1)
        ELSE IF ~IsSet(s1.rx.seg, seg) THEN s1
        ELSE IF /\ seg = s2.rx.lastSeg /\ ~IsSet(s2.rx.seg, 0)
                /\ ExpectLastLen(s2.rx.len, s2.rx.lastSeg) /= f.dlen
             THEN prov_failed(s2)
        ELSE IF s2.rx.seg = 0 THEN prov_msg_recv(n, s2, fail)
        ELSE s2

\* Fault variant of gen_prov_ack: the transaction is never retired.
gen_prov_ack_keep(s, f) ==
    IF s.tx.bufs = <<>> \/ f.xact /= s.tx.id \/ s.tx.cb = NoMsg THEN s
    ELSE [s EXCEPT !.up.done = Append(@, s.tx.cb)]

\* gen_prov_ack(): a Transaction Ack for the transaction in flight retires
\* it (unless the link is closing) and runs its send-complete callback.
gen_prov_ack(s, f) ==
    LET s1 == IF Has(s, "CLOSING") THEN s ELSE prov_clear_tx(s)
    IN  IF s.tx.bufs = <<>> \/ f.xact /= s.tx.id THEN s
        ELSE IF s1.tx.cb = NoMsg THEN s1
        ELSE [s1 EXCEPT !.up.done = Append(@, s1.tx.cb)]

\* Fault variants of gen_prov_start: without the duplicate check of a
\* completed transaction, and with >= for > in the missing-segment check.
gen_prov_start_nodup(n, s, f, fail) ==
    LET s1  == [s EXCEPT !.rx.len = f.total, !.rx.id = f.xact, !.rx.fcs = f.fcs]
        s2  == [prov_clear_tx(s1) EXCEPT !.rx.lastSeg = f.seg]
        msb == find_msb_set(255 - s2.rx.seg)
        seg == IF s2.rx.seg /= 0 THEN s2.rx.seg ELSE SEG_NVAL
        s3  == [s2 EXCEPT !.rx.seg = (seg & LowMask(f.seg + 1)) & (255 - BIT(0)),
                          !.rx.buf[0] = f.data]
    IN  IF f.xact = s.rx.id /\ s.rx.seg /= 0 /\ ~IsSet(s.rx.seg, 0) THEN s
        ELSE IF f.xact /= s.rx.id /\ f.xact /= next_transaction_id(s.rx.id) THEN s
        ELSE IF ~StartLenValid(f.seg, f.total) THEN prov_failed(s1)
        ELSE IF msb /= 0 /\ IsSet(s2.rx.seg, 0) /\ msb - 1 > f.seg
             THEN prov_failed(s2)
        ELSE IF s3.rx.seg = 0 THEN prov_msg_recv(n, s3, fail)
        ELSE s3

gen_prov_start_msb(n, s, f, fail) ==
    LET s1  == [s EXCEPT !.rx.len = f.total, !.rx.id = f.xact, !.rx.fcs = f.fcs]
        s2  == [prov_clear_tx(s1) EXCEPT !.rx.lastSeg = f.seg]
        msb == find_msb_set(255 - s2.rx.seg)
        seg == IF s2.rx.seg /= 0 THEN s2.rx.seg ELSE SEG_NVAL
        s3  == [s2 EXCEPT !.rx.seg = (seg & LowMask(f.seg + 1)) & (255 - BIT(0)),
                          !.rx.buf[0] = f.data]
    IN  IF f.xact = s.rx.id /\ s.rx.seg = 0
        THEN IF ~ack_pending(s) THEN gen_prov_ack_send(n, s, f.xact, fail) ELSE s
        ELSE IF f.xact = s.rx.id /\ ~IsSet(s.rx.seg, 0) THEN s
        ELSE IF f.xact /= s.rx.id /\ f.xact /= next_transaction_id(s.rx.id) THEN s
        ELSE IF ~StartLenValid(f.seg, f.total) THEN prov_failed(s1)
        ELSE IF msb /= 0 /\ IsSet(s2.rx.seg, 0) /\ msb - 1 >= f.seg
             THEN prov_failed(s2)
        ELSE IF s3.rx.seg = 0 THEN prov_msg_recv(n, s3, fail)
        ELSE s3

\* gen_prov_start(): a Start frame f.
gen_prov_start(n, s, f, fail) ==
    LET s1  == [s EXCEPT !.rx.len = f.total, !.rx.id = f.xact, !.rx.fcs = f.fcs]
        s2  == [prov_clear_tx(s1) EXCEPT !.rx.lastSeg = f.seg]
        msb == find_msb_set(255 - s2.rx.seg)
        seg == IF s2.rx.seg /= 0 THEN s2.rx.seg ELSE SEG_NVAL
        s3  == [s2 EXCEPT !.rx.seg = (seg & LowMask(f.seg + 1)) & (255 - BIT(0)),
                          !.rx.buf[0] = f.data]
    IN  IF f.xact = s.rx.id /\ s.rx.seg = 0
        THEN IF ~ack_pending(s) THEN gen_prov_ack_send(n, s, f.xact, fail) ELSE s
        ELSE IF f.xact = s.rx.id /\ ~IsSet(s.rx.seg, 0) THEN s
        ELSE IF f.xact /= s.rx.id /\ f.xact /= next_transaction_id(s.rx.id) THEN s
        ELSE IF ~StartLenValid(f.seg, f.total) THEN prov_failed(s1)
        ELSE IF msb /= 0 /\ IsSet(s2.rx.seg, 0) /\ msb - 1 > f.seg
             THEN prov_failed(s2)
        ELSE IF s3.rx.seg = 0 THEN prov_msg_recv(n, s3, fail)
        ELSE s3

\* link_open(): a Link Open.  An active link re-sends Link Ack for its own
\* ID; an idle device opens the link when the UUID is its own.
link_open(n, s, f, fail) ==
    LET s1 == [s EXCEPT !.id = f.link, !.flags = @ \cup {"ACTIVE"},
                        !.rx.len = 0]
    IN  IF Has(s, "ACTIVE")
        THEN IF s.id /= f.link \/ ~CanAlloc(s, fail) THEN s
             ELSE bearer_ctl_send_unacked(s, CtlFrame(n, s.id, "lack", 0))
        ELSE IF f.arg /= DevUuid THEN s
        ELSE IF ~CanAlloc(s1, fail) THEN reset_adv_link(s1)
        ELSE [bearer_ctl_send_unacked(s1, CtlFrame(n, s1.id, "lack", 0))
                EXCEPT !.up.opened = TRUE]

\* link_ack(): the provisioner's first Link Ack opens the link.
link_ack(s) ==
    IF Has(s, "PROVISIONER") /\ ~Has(s, "ACK_RECVD")
    THEN [prov_clear_tx(s) EXCEPT !.flags = @ \cup {"ACK_RECVD"},
                                  !.up.opened = TRUE]
    ELSE s

\* gen_prov_ctl(): Link Open, and Link Ack and Link Close on an active link
\* (link_close() closes the link with the reason the frame carries).
gen_prov_ctl(n, s, f, fail) ==
    CASE f.kind = "open"                         -> link_open(n, s, f, fail)
      [] f.kind = "lack" /\ Has(s, "ACTIVE")     -> link_ack(s)
      [] f.kind = "close" /\ Has(s, "ACTIVE")    -> close_link(s)
      [] OTHER                                   -> s

\* bt_mesh_pb_adv_recv() and gen_prov_recv(): drop frames before a callback
\* is registered, frames of another link while active, and transaction
\* frames while no link is active; dispatch on the GPCF.
bt_mesh_pb_adv_recv(n, s, f, fail) ==
    IF \/ ~s.cb
       \/ Has(s, "ACTIVE") /\ s.id /= f.link
       \/ ~Has(s, "ACTIVE") /\ f.kind \in {"start", "ack", "cont"}
    THEN s
    ELSE CASE f.kind = "start" -> gen_prov_start(n, s, f, fail)
           [] f.kind = "ack"   -> gen_prov_ack(s, f)
           [] f.kind = "cont"  -> gen_prov_cont(n, s, f, fail)
           [] OTHER            -> gen_prov_ctl(n, s, f, fail)

-----------------------------------------------------------------------------
(* Advertiser callbacks and work handlers.                                 *)

\* Fault variant of buf_sent: CLOSING is cleared but the link not closed.
buf_sent_noclose(s) == [s EXCEPT !.flags = @ \ {"CLOSING"}]

\* buf_sent(): a Link Ack or Link Close has been sent; if the link is
\* closing, it is closed now.
buf_sent(s) ==
    IF Has(s, "CLOSING")
    THEN close_link([s EXCEPT !.flags = @ \ {"CLOSING"}])
    ELSE s

\* ack_complete(): the pending Transaction Ack has started going out.
ack_complete(s) == [s EXCEPT !.flags = @ \ {"ACK_PENDING"}]

\* The advertiser sends the buffer at the head of the queue and runs its
\* callbacks.
adv_sent(s) ==
    LET e  == Head(s.advq)
        s1 == [s EXCEPT !.advq = Tail(@)]
    IN  CASE e.cb = "ack"  -> ack_complete(s1)
          [] e.cb = "sent" -> buf_sent(s1)
          [] OTHER         -> s1

\* Fault variant of prov_retransmit: gives up one period late.
prov_retransmit_late(n, s, fail) ==
    LET s0 == [s EXCEPT !.retransmit = FALSE]
    IN  IF ~Has(s, "ACTIVE") THEN s0
        ELSE IF s.tx.elapsed > XactTimeout THEN prov_link_close(n, s0, FAIL, fail)
        ELSE send_reliable([s0 EXCEPT !.tx.elapsed = @ + 1])

\* prov_retransmit(): give up the transaction once TRANSACTION_TIMEOUT has
\* passed since it started, otherwise send its buffers again.
prov_retransmit(n, s, fail) ==
    LET s0 == [s EXCEPT !.retransmit = FALSE]
    IN  IF ~Has(s, "ACTIVE") THEN s0
        ELSE IF s.tx.elapsed >= XactTimeout THEN prov_link_close(n, s0, FAIL, fail)
        ELSE send_reliable([s0 EXCEPT !.tx.elapsed = @ + 1])

\* protocol_timeout(): no traffic for PROTOCOL_TIMEOUT closes the link.
protocol_timeout(n, s, fail) ==
    LET s0 == [s EXCEPT !.protTimer = FALSE]
    IN  IF ~Has(s, "ACTIVE") THEN s0
        ELSE prov_link_close(n, [s0 EXCEPT !.rx.seg = 0], TIMEOUT, fail)

-----------------------------------------------------------------------------
(* The bearer's interface to prov.c.                                       *)

\* prov_link_open(): as provisioner, open link lid to the device uuid.  An
\* active link answers -EBUSY; with no buffer for Link Open, -ENOMEM.
prov_link_open(n, s, uuid, lid, fail) ==
    LET s1 == [s EXCEPT !.flags = @ \cup {"ACTIVE", "PROVISIONER"}, !.id = lid,
                        !.tx.id = XACT_ID_MAX, !.rx.id = XACT_ID_NVAL,
                        !.cb = TRUE, !.rx.len = 0]
    IN  IF Has(s, "ACTIVE") THEN s
        ELSE IF ~CanAlloc(s1, fail) THEN s1
        ELSE bearer_ctl_send(s1, CtlFrame(n, lid, "open", uuid))

\* prov_link_accept(): as device, wait for a Link Open.
prov_link_accept(s) ==
    IF Has(s, "ACTIVE") THEN s
    ELSE [s EXCEPT !.rx.id = XACT_ID_MAX, !.tx.id = XACT_ID_NVAL, !.cb = TRUE]

\* Whether prov_send_adv() gets all the buffers it needs for m; failAt is
\* the allocation, counted from 1, that fails for want of a buffer (0: none).
SendAllocOK(s, m, failAt) ==
    \A k \in 1..Len(SendSegments(m.len)) :
        InUse(prov_clear_tx(s)) + (k - 1) < AdvBufCount /\ failAt /= k

\* prov_send_adv(): cancel the transaction in flight, segment m into a new
\* transaction and send it reliably.  Failing the first allocation leaves
\* the transaction ID alone; failing a later one frees the segments.
prov_send_adv(n, s, m, failAt) ==
    LET s1 == [prov_clear_tx(s) EXCEPT !.protTimer = TRUE]
        x  == next_transaction_id(s.tx.id)
        s2 == [s1 EXCEPT !.tx.id = x, !.tx.cb = m, !.tx.elapsed = 0]
        firstOK == InUse(s1) < AdvBufCount /\ failAt /= 1
    IN  IF ~firstOK THEN s1
        ELSE IF ~SendAllocOK(s, m, failAt) THEN free_segments(s2)
        ELSE send_reliable([s2 EXCEPT !.tx.bufs = TxFrames(n, s.id, x, m)])

-----------------------------------------------------------------------------
(* The state machine.                                                      *)

Init ==
    /\ node = [n \in Nodes |-> NodeInit]
    /\ chan = [n \in Nodes |-> <<>>]
    /\ usedIds = {}
    /\ allocFails = 0

\* Whether an allocation may fail although the pool has a free buffer.
FailOpts == IF allocFails < MaxAllocFails THEN BOOLEAN ELSE {FALSE}
Charge(fail) == allocFails' = allocFails + (IF fail THEN 1 ELSE 0)

Step(n, s) == node' = [node EXCEPT ![n] = s]

\* prov.c opens a link as provisioner; bt_rand draws a fresh link ID.
ProvOpen ==
    \E uuid \in Uuids, lid \in LinkIds \ usedIds, fail \in FailOpts :
        /\ ~Has(node[Prov], "ACTIVE")
        /\ Step(Prov, prov_link_open(Prov, node[Prov], uuid, lid, fail))
        /\ usedIds' = usedIds \cup {lid}
        /\ Charge(fail)
        /\ UNCHANGED chan

\* prov.c makes the device wait for a link.
DevAccept ==
    /\ ~Has(node[Dev], "ACTIVE")
    /\ Step(Dev, prov_link_accept(node[Dev]))
    /\ UNCHANGED <<chan, usedIds, allocFails>>

\* prov.c on an open link sends its next PDU, of length len.
Send(n) ==
    LET s == node[n] IN
    \E len \in PduLens :
    \E failAt \in IF allocFails < MaxAllocFails
                  THEN 0..Len(SendSegments(len)) ELSE {0} :
        LET m  == [src |-> n, k |-> Len(s.up.sent) + 1, len |-> len]
            r  == prov_send_adv(n, s, m, failAt)
            ok == SendAllocOK(s, m, failAt)
        IN  /\ s.up.opened /\ ~s.up.closeReq
            /\ Len(s.up.sent) < MaxSends
            /\ Alternate => s.up.nSent < s.up.nDlv + (IF n = Prov THEN 1 ELSE 0)
            /\ Step(n, IF ok THEN [r EXCEPT !.up.sent = Append(@, m),
                                            !.up.nSent = @ + 1]
                       ELSE r)
            /\ Charge(failAt /= 0)
            /\ UNCHANGED <<chan, usedIds>>

\* prov.c closes an open link.
Close(n) ==
    \E fail \in FailOpts :
        /\ node[n].up.opened /\ ~node[n].up.closeReq
        /\ Step(n, [prov_link_close(n, node[n], SUCCESS, fail)
                      EXCEPT !.up.closeReq = TRUE])
        /\ Charge(fail)
        /\ UNCHANGED <<chan, usedIds>>

\* prov.c cancels the transaction in flight.
ClearTx(n) ==
    /\ node[n].up.opened
    /\ Step(n, prov_clear_tx(node[n]))
    /\ UNCHANGED <<chan, usedIds, allocFails>>

\* Node n scans the oldest frame its peer advertised.
Receive(n) ==
    \E fail \in FailOpts :
        /\ chan[Peer(n)] /= <<>>
        /\ Step(n, bt_mesh_pb_adv_recv(n, node[n], Head(chan[Peer(n)]), fail))
        /\ chan' = [chan EXCEPT ![Peer(n)] = Tail(@)]
        /\ Charge(fail)
        /\ UNCHANGED usedIds

\* Node n's advertiser transmits the buffer at the head of its queue; with
\* MaxInFlight of its frames still unscanned, the peer misses it.
Transmit(n) ==
    /\ node[n].advq /= <<>>
    /\ Step(n, adv_sent(node[n]))
    /\ chan' = IF Len(chan[n]) < MaxInFlight
               THEN [chan EXCEPT ![n] = Append(@, Head(node[n].advq).f)]
               ELSE chan
    /\ UNCHANGED <<usedIds, allocFails>>

\* The oldest frame n advertised is lost.
Lose(n) ==
    /\ chan[n] /= <<>>
    /\ chan' = [chan EXCEPT ![n] = Tail(@)]
    /\ UNCHANGED <<node, usedIds, allocFails>>

\* The retransmit work of node n runs.
RetransmitTimer(n) ==
    \E fail \in FailOpts :
        /\ node[n].retransmit
        /\ Step(n, prov_retransmit(n, node[n], fail))
        /\ Charge(fail)
        /\ UNCHANGED <<chan, usedIds>>

\* The protocol timer of node n expires.  PROTOCOL_TIMEOUT (60 s) is
\* rescheduled whenever a transaction starts, and a transaction is given up
\* TRANSACTION_TIMEOUT (30 s) after it starts, so the protocol timer never
\* expires while the retransmit work is pending.
ProtocolTimer(n) ==
    \E fail \in FailOpts :
        /\ node[n].protTimer /\ ~node[n].retransmit
        /\ Step(n, protocol_timeout(n, node[n], fail))
        /\ Charge(fail)
        /\ UNCHANGED <<chan, usedIds>>

Next ==
    \/ ProvOpen \/ DevAccept
    \/ \E n \in Nodes :
          \/ Send(n) \/ Close(n) \/ ClearTx(n)
          \/ Receive(n) \/ Transmit(n) \/ Lose(n)
          \/ RetransmitTimer(n) \/ ProtocolTimer(n)

\* The advertiser, the retransmit work and the protocol timer of each node
\* eventually run when they have work; reception and prov.c are not fair.
Fairness ==
    \A n \in Nodes :
        /\ WF_vars(Transmit(n))
        /\ WF_vars(RetransmitTimer(n))
        /\ WF_vars(ProtocolTimer(n))

Spec == Init /\ [][Next]_vars /\ Fairness

-----------------------------------------------------------------------------
(* Properties.                                                             *)

IsFrame(f) ==
    /\ DOMAIN f = {"src", "link", "xact", "kind", "seg", "total", "fcs",
                   "data", "dlen", "arg"}
    /\ f.src \in Nodes /\ f.link \in LinkIds \cup {0} /\ f.xact \in 0..255
    /\ f.kind \in {"start", "cont", "ack", "open", "lack", "close"}
    /\ f.seg \in 0..TX_BUF_COUNT - 1 /\ f.total \in PduLens \cup {0}
    /\ f.fcs \in Msgs \cup {NoMsg} /\ f.data \in Msgs \cup {NoMsg}
    /\ f.dlen \in 0..CONT_PAYLOAD_MAX
    /\ f.arg \in Uuids \cup {SUCCESS, TIMEOUT, FAIL}

TypeOK ==
    /\ \A n \in Nodes : \A i \in 1..Len(chan[n]) : IsFrame(chan[n][i])
    /\ usedIds \subseteq LinkIds
    /\ allocFails \in 0..MaxAllocFails
    /\ \A n \in Nodes :
        LET s == node[n] IN
        /\ s.id \in LinkIds \cup {0}
        /\ s.flags \subseteq Flags
        /\ s.cb \in BOOLEAN
        /\ s.rx.id \in 0..255 /\ s.rx.seg \in 0..255
        /\ s.rx.lastSeg \in 0..255 /\ s.rx.len \in 0..RX_BUF_SIZE
        /\ s.rx.fcs \in Msgs \cup {NoMsg}
        /\ s.rx.buf \in [0..TX_BUF_COUNT - 1 -> Msgs \cup {NoMsg}]
        /\ s.tx.id \in 0..255 /\ s.tx.pendingAck \in 0..255
        /\ Len(s.tx.bufs) <= TX_BUF_COUNT
        /\ \A i \in 1..Len(s.tx.bufs) : IsFrame(s.tx.bufs[i])
        /\ s.tx.cb \in Msgs \cup {NoMsg}
        /\ s.tx.elapsed \in 0..XactTimeout
        /\ Len(s.advq) <= AdvBufCount
        /\ \A i \in 1..Len(s.advq) :
              /\ IsFrame(s.advq[i].f)
              /\ s.advq[i].cb \in {"none", "ack", "sent", "reliable"}
        /\ s.retransmit \in BOOLEAN /\ s.protTimer \in BOOLEAN
        /\ s.badFcs \in BOOLEAN

\* Reassembly and duplicate suppression in gen_prov_start/gen_prov_cont:
\* each node hands prov.c only PDUs its peer sent, each at most once and in
\* the order they were sent, whatever the radio loses, repeats or reorders.
DeliveredInOrder ==
    \A n \in Nodes :
        LET d == node[n].up.delivered IN
        /\ \A i \in 1..Len(d) : d[i] \in ToSet(node[Peer(n)].up.sent)
        /\ \A i, j \in 1..Len(d) : i < j => d[i].k < d[j].k

\* A Transaction Ack (gen_prov_ack_send) is only sent for a PDU that was
\* reassembled and delivered: when a send-complete callback runs in
\* gen_prov_ack, the peer's prov.c has received that PDU.
AckImpliesDelivered ==
    \A n \in Nodes :
        \A m \in ToSet(node[n].up.done) : m \in ToSet(node[Peer(n)].up.delivered)

\* gen_prov_ack runs the send-complete callback of a PDU at most once.
CompletionOnce ==
    \A n \in Nodes :
        \A i, j \in 1..Len(node[n].up.done) :
            i < j => node[n].up.done[i] /= node[n].up.done[j]

\* Reassembly in gen_prov_start/gen_prov_cont never mixes the bytes of two
\* PDUs: the radio loses frames but does not corrupt them, so the FCS check
\* of prov_msg_recv ("Incorrect FCS") never fails, on any link.
NoFcsMismatch == \A n \in Nodes : ~node[n].badFcs

\* Malformed-PDU handling in gen_prov_start/gen_prov_cont (prov_failed):
\* both nodes run this code and so never send a malformed PDU, hence
\* neither bearer ever reports a protocol error to prov.c, whatever the
\* radio loses and whatever links came before.
NoSpuriousFailure == \A n \in Nodes : ~node[n].up.error

\* Every link a node holds open is eventually released: the retransmit
\* work gives up, the protocol timer expires, or a Link Close goes out, so
\* a node never stays ACTIVE (refusing new links with -EBUSY) for ever.
LinkReleased ==
    \A n \in Nodes : Has(node[n], "ACTIVE") ~> ~Has(node[n], "ACTIVE")
=============================================================================
