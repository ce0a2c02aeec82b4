----------------------------- MODULE BrDiscovery -----------------------------
(***************************************************************************)
(* BR/EDR device discovery and remote name requests of                     *)
(* subsys/bluetooth/host/br.c, against an HCI controller.                   *)
(*                                                                         *)
(* `host` holds br.c's statics and the BT_DEV_INQUIRY flag: discovery_cb   *)
(* (set or NULL), the application's result array `results` with            *)
(* discovery_results_size `size` and discovery_results_count `count`, and  *)
(* rnr_cb.  A zero size stands for discovery_results == NULL.  The array   *)
(* itself belongs to the application and outlives a reset.                 *)
(*                                                                         *)
(* `ctl` is the controller: whether its inquiry runs, the remote name      *)
(* requests it has accepted, and the reports of the current inquiry.       *)
(* `evq` is the HCI event stream to the host, in order.  A command the     *)
(* controller cannot take (HCI Inquiry while inquiring, Inquiry Cancel     *)
(* when not) fails; up to MaxCmdFails further commands fail for other      *)
(* reasons (no buffer, controller busy).                                    *)
(*                                                                         *)
(* An EIR is abstracted to two facts: whether eir_has_name finds a name,   *)
(* and whether it has a zero-length field where a name can be appended.    *)
(***************************************************************************)
EXTENDS Integers, Sequences, SequencesExt, FiniteSets

CONSTANTS
    Addrs,          \* remote BR/EDR addresses
    NoAddr,         \* the all-zero address of a memset result
    ResultSizes,    \* array lengths the application passes
    Rssis,          \* RSSI values (int8_t dBm) the controller reports
    MaxReports,     \* bound on inquiry results per inquiry
    MaxStarts,      \* bound on bt_br_discovery_start calls that succeed
    MaxCmdFails,    \* bound on HCI commands failing for other reasons
    MaxEvents       \* bound on the length of the HCI event stream

\* An EIR as eir_has_name and the name insertion of
\* bt_hci_remote_name_request_complete see it.
EirKinds == [hasName : BOOLEAN, room : BOOLEAN]
ZeroEir == [hasName |-> FALSE, room |-> TRUE]

\* A bt_br_discovery_result with its discovery_priv.
ZeroResult == [addr |-> NoAddr, rssi |-> 0, eir |-> ZeroEir,
               resolving |-> FALSE, updated |-> FALSE]

\* int8_t conversion: the 0xff that bt_hci_remote_name_request_complete
\* passes as get_result_slot's int8_t rssi.
Int8(x) == IF x >= 128 THEN x - 256 ELSE x

Events ==
         [type : {"inquiry_result"}, addr : Addrs, rssi : Rssis]
    \cup [type : {"ext_inquiry_result"}, addr : Addrs, rssi : Rssis, eir : EirKinds]
    \cup [type : {"inquiry_complete"}]
    \cup [type : {"remote_name"}, addr : Addrs, ok : BOOLEAN, named : BOOLEAN]

VARIABLES
    host,       \* br.c statics and BT_DEV_INQUIRY
    ctl,        \* the controller
    evq,        \* HCI events not yet handled, oldest first
    fails,      \* commands failed for other reasons so far
    starts,     \* successful bt_br_discovery_start calls so far
    ghost       \* session: "running" from a successful start until the
                \* application is told discovery completed or stops it;
                \* misuse: discovery_cb was called outside a session

vars == <<host, ctl, evq, fails, starts, ghost>>

\* One step works on w = [h |-> host, c |-> ctl, g |-> ghost].
World == [h |-> host, c |-> ctl, g |-> ghost]

----------------------------------------------------------------------------
(* br.c *)

Reported(h) == 1..h.count

bt_br_discovery_reset(h) ==
    [h EXCEPT !.discovery_cb = FALSE, !.size = 0, !.count = 0]

find_discovery_result(h, addr) ==
    LET I == {i \in Reported(h) : h.results[i].addr = addr}
    IN  IF I = {} THEN 0 ELSE CHOOSE i \in I : \A j \in I : i <= j

\* The slot the scan of lines 537-546 picks on a full array: the first
\* with the smallest rssi among those not stronger than rssi, or none.
WeakestSlot(h, rssi) ==
    LET I == {i \in 1..h.size : h.results[i].rssi <= rssi}
        m == IF I = {} THEN 0 ELSE CHOOSE i \in I : \A j \in I :
                 h.results[i].rssi < h.results[j].rssi
                 \/ (h.results[i].rssi = h.results[j].rssi /\ i <= j)
    IN  m

\* Fault variant: a new slot is taken while count <= size.
get_result_slot_past(h, addr, rssi) ==
    IF find_discovery_result(h, addr) # 0 THEN h
    ELSE IF h.count <= h.size
    THEN [h EXCEPT !.results = (h.count + 1 :> [ZeroResult EXCEPT !.addr = addr]) @@ @,
                   !.count = @ + 1]
    ELSE h

\* The host with addr in a slot: the one it has, a new one, or the weakest
\* one.  The caller finds the slot with find_discovery_result; 0 is NULL.
\* rssi is int8_t, so the test rssi == 0xff is never true.
get_result_slot(h, addr, rssi) ==
    IF find_discovery_result(h, addr) # 0 THEN h
    ELSE IF h.count < h.size
    THEN [h EXCEPT !.results[h.count + 1].addr = addr, !.count = @ + 1]
    ELSE IF rssi = 255 \/ WeakestSlot(h, rssi) = 0 THEN h
    ELSE [h EXCEPT !.results[WeakestSlot(h, rssi)].addr = addr]

NoRnr == [cb |-> FALSE, addr |-> NoAddr]

\* A call of discovery_cb, and the call discovery_cb(NULL, 0) that tells the
\* application discovery is complete.  A call outside a session, including
\* one through a NULL discovery_cb, is misuse.
Called(w) == [w EXCEPT !.g.misuse = @ \/ w.g.session = "idle"]
Completed(w) == [Called(w) EXCEPT !.g.session = "idle"]

NamedUpdates(h) ==
    \E i \in Reported(h) : h.results[i].eir.hasName /\ h.results[i].updated

\* The loop of report_discovery_results: each named, updated result is
\* passed to discovery_cb and its updated flag cleared.
report_discovery_results(w) ==
    LET w1 == IF NamedUpdates(w.h) THEN Called(w) ELSE w
    IN  [w1 EXCEPT !.h.results = [i \in DOMAIN @ |->
            IF i \in Reported(w.h) /\ @[i].eir.hasName
            THEN [@[i] EXCEPT !.updated = FALSE] ELSE @[i]]]

\* The value report_discovery_results returns.
ResolvingNames(h) ==
    \E i \in Reported(h) : ~h.results[i].eir.hasName /\ h.results[i].resolving

\* The slots of failed are those whose request_name fails.
report_discovery_complete(w, failed) ==
    LET w1  == report_discovery_results(w)
        req == {i \in Reported(w.h) : ~w.h.results[i].eir.hasName /\ i \notin failed}
        w2  == [w1 EXCEPT !.h.results = [i \in DOMAIN @ |->
                              IF i \in req THEN [@[i] EXCEPT !.resolving = TRUE] ELSE @[i]],
                          !.c.names = @ \cup {w.h.results[i].addr : i \in req}]
    IN  IF req # {} THEN w2
        ELSE [Completed(w2) EXCEPT !.h = bt_br_discovery_reset([@ EXCEPT !.inquiry = FALSE])]

bt_hci_inquiry_complete(w, failed) == report_discovery_complete(w, failed)

\* One report of an Inquiry Result with RSSI event (its EIR is cleared), or
\* an Extended Inquiry Result event with its EIR.
InquiryResult(w, addr, rssi, eir) ==
    IF ~w.h.inquiry THEN w
    ELSE LET h1 == get_result_slot(w.h, addr, rssi)
             i  == find_discovery_result(h1, addr)
         IN  IF i = 0 THEN [w EXCEPT !.h = h1]
             ELSE report_discovery_results(
                    [w EXCEPT !.h = [h1 EXCEPT !.results[i] =
                        [@ EXCEPT !.updated = TRUE, !.rssi = rssi, !.eir = eir]]])

bt_hci_inquiry_result_with_rssi(w, addr, rssi) == InquiryResult(w, addr, rssi, ZeroEir)

bt_hci_extended_inquiry_result(w, addr, rssi, eir) == InquiryResult(w, addr, rssi, eir)

bt_br_rnr_reset(h) == [h EXCEPT !.rnr = NoRnr]

\* The name, when the request succeeded, is appended at the EIR's first
\* zero-length field; an empty name makes a field eir_has_name skips.
AddName(eir, ok, named) ==
    IF ok /\ eir.room THEN [eir EXCEPT !.hasName = @ \/ named] ELSE eir

\* Fault variant: the result's resolving flag is left set.
bt_hci_remote_name_request_complete_keep(w, addr, ok, named) ==
    LET w1 == IF w.h.rnr.cb /\ w.h.rnr.addr = addr
              THEN [w EXCEPT !.h = bt_br_rnr_reset(@)] ELSE w
        h2 == get_result_slot(w1.h, addr, Int8(255))
        i  == find_discovery_result(h2, addr)
        w3 == [w1 EXCEPT !.h = [h2 EXCEPT
                  !.results[i].eir = AddName(@, ok, named)]]
    IN  IF i = 0 THEN [w1 EXCEPT !.h = h2]
        ELSE IF ResolvingNames(w3.h) THEN report_discovery_results(w3)
        ELSE [Completed(report_discovery_results(w3)) EXCEPT !.h.inquiry = FALSE]

\* The rnr_cb callback runs first; the result is then found or taken with
\* rssi 0xff, its name added, and when no name is pending any more the
\* discovery is reported complete, without bt_br_discovery_reset.
bt_hci_remote_name_request_complete(w, addr, ok, named) ==
    LET w1 == IF w.h.rnr.cb /\ w.h.rnr.addr = addr
              THEN [w EXCEPT !.h = bt_br_rnr_reset(@)] ELSE w
        h2 == get_result_slot(w1.h, addr, Int8(255))
        i  == find_discovery_result(h2, addr)
        w3 == [w1 EXCEPT !.h = [h2 EXCEPT
                  !.results[i].resolving = FALSE,
                  !.results[i].eir = AddName(@, ok, named)]]
    IN  IF i = 0 THEN [w1 EXCEPT !.h = h2]
        ELSE IF ResolvingNames(w3.h) THEN report_discovery_results(w3)
        ELSE [Completed(report_discovery_results(w3)) EXCEPT !.h.inquiry = FALSE]

valid_br_discov_param(cnt) == cnt \in 1..255

\* fail: the HCI Inquiry command fails for another reason.
bt_br_discovery_start(w, cnt, fail) ==
    IF ~valid_br_discov_param(cnt) \/ w.h.inquiry THEN w
    ELSE IF w.c.inquiring \/ fail THEN w
    ELSE [w EXCEPT !.h = [@ EXCEPT !.inquiry = TRUE, !.discovery_cb = TRUE,
                                   !.results = [i \in 1..cnt |-> ZeroResult],
                                   !.size = cnt, !.count = 0],
                   !.c = [@ EXCEPT !.inquiring = TRUE, !.reports = 0],
                   !.g.session = "running"]

\* fail: HCI Inquiry Cancel fails for another reason.  The Remote Name
\* Cancel commands sent for resolving results change nothing here: the
\* controller still completes those requests.
bt_br_discovery_stop(w, fail) ==
    IF ~w.h.inquiry THEN w
    ELSE IF ~w.c.inquiring \/ fail THEN w
    ELSE [w EXCEPT !.c.inquiring = FALSE,
                   !.h = bt_br_discovery_reset([@ EXCEPT !.inquiry = FALSE]),
                   !.g.session = "idle"]

\* fail: the HCI Remote Name Request command fails; the callback is then
\* called with an error and rnr_cb reset.
bt_br_remote_name_request(w, addr, fail) ==
    IF w.h.rnr.cb THEN w
    ELSE LET w1 == [w EXCEPT !.h.rnr = [cb |-> TRUE, addr |-> addr]]
             i  == find_discovery_result(w1.h, addr)
             w2 == IF i # 0 THEN [w1 EXCEPT !.h.results[i].resolving = TRUE] ELSE w1
         IN  IF i # 0 /\ w1.h.results[i].resolving THEN w1
             ELSE IF fail THEN [w2 EXCEPT !.h = bt_br_rnr_reset(@)]
             ELSE [w2 EXCEPT !.c.names = @ \cup {addr}]

----------------------------------------------------------------------------
(* The application, the controller and the host's event handling *)

Init ==
    /\ host = [inquiry |-> FALSE, discovery_cb |-> FALSE, results |-> <<>>,
               size |-> 0, count |-> 0, rnr |-> NoRnr]
    /\ ctl = [inquiring |-> FALSE, names |-> {}, reports |-> 0]
    /\ evq = <<>>
    /\ fails = 0
    /\ starts = 0
    /\ ghost = [session |-> "idle", misuse |-> FALSE]

\* Takes the result of a step of the host on World.
Apply(w) == host' = w.h /\ ctl' = w.c /\ ghost' = w.g

\* Whether a command fails for another reason, within the bound.
FailChoices == IF fails < MaxCmdFails THEN BOOLEAN ELSE {FALSE}
Charge(fail) == fails' = fails + (IF fail THEN 1 ELSE 0)

\* bt_br_discovery_start called by the application.
Start(cnt) ==
    /\ starts < MaxStarts
    /\ \E fail \in FailChoices :
          LET w == bt_br_discovery_start(World, cnt, fail)
          IN  /\ Apply(w)
              /\ Charge(fail)
              /\ starts' = starts + (IF w.g.session = "running" /\ ghost.session = "idle"
                                     THEN 1 ELSE 0)
    /\ UNCHANGED evq

\* bt_br_discovery_stop called by the application.
Stop ==
    /\ \E fail \in FailChoices :
          LET w == bt_br_discovery_stop(World, fail) IN Apply(w) /\ Charge(fail)
    /\ UNCHANGED <<evq, starts>>

\* bt_br_remote_name_request called by the application.
RemoteNameRequest(addr) ==
    /\ \E fail \in FailChoices :
          LET w == bt_br_remote_name_request(World, addr, fail)
          IN  Apply(w) /\ Charge(fail)
    /\ UNCHANGED <<evq, starts>>

\* The controller reports a device found by its inquiry.
CtlReport ==
    /\ ctl.inquiring
    /\ ctl.reports < MaxReports
    /\ Len(evq) < MaxEvents
    /\ \E a \in Addrs, r \in Rssis :
          \/ evq' = Append(evq, [type |-> "inquiry_result", addr |-> a, rssi |-> r])
          \/ \E e \in EirKinds :
                evq' = Append(evq, [type |-> "ext_inquiry_result", addr |-> a,
                                    rssi |-> r, eir |-> e])
    /\ ctl' = [ctl EXCEPT !.reports = @ + 1]
    /\ UNCHANGED <<host, fails, starts, ghost>>

\* The inquiry's time runs out.
CtlInquiryComplete ==
    /\ ctl.inquiring
    /\ Len(evq) < MaxEvents
    /\ ctl' = [ctl EXCEPT !.inquiring = FALSE]
    /\ evq' = Append(evq, [type |-> "inquiry_complete"])
    /\ UNCHANGED <<host, fails, starts, ghost>>

\* A remote name request ends: the name, an empty name, or an error
\* (page timeout, or cancelled by Remote Name Cancel).
CtlRemoteName(a) ==
    /\ a \in ctl.names
    /\ Len(evq) < MaxEvents
    /\ ctl' = [ctl EXCEPT !.names = @ \ {a}]
    /\ \E ok, named \in BOOLEAN :
          evq' = Append(evq, [type |-> "remote_name", addr |-> a, ok |-> ok,
                              named |-> named])
    /\ UNCHANGED <<host, fails, starts, ghost>>

\* The host handles the oldest HCI event.
HandleEvent ==
    /\ evq # <<>>
    /\ LET e == Head(evq) IN
       \E failed \in IF e.type = "inquiry_complete"
                     THEN {F \in SUBSET Reported(host) :
                              Cardinality(F) <= MaxCmdFails - fails}
                     ELSE {{}} :
          LET w == CASE e.type = "inquiry_result" ->
                          bt_hci_inquiry_result_with_rssi(World, e.addr, e.rssi)
                     [] e.type = "ext_inquiry_result" ->
                          bt_hci_extended_inquiry_result(World, e.addr, e.rssi, e.eir)
                     [] e.type = "inquiry_complete" ->
                          bt_hci_inquiry_complete(World, failed)
                     [] e.type = "remote_name" ->
                          bt_hci_remote_name_request_complete(World, e.addr, e.ok, e.named)
          IN  /\ Apply(w)
              /\ fails' = fails + Cardinality(failed)
    /\ evq' = Tail(evq)
    /\ UNCHANGED starts

Next ==
    \/ \E cnt \in ResultSizes : Start(cnt)
    \/ Stop
    \/ \E a \in Addrs : RemoteNameRequest(a)
    \/ CtlReport
    \/ CtlInquiryComplete
    \/ \E a \in Addrs : CtlRemoteName(a)
    \/ HandleEvent

\* A step that takes the oldest event off the stream.  Under Next only
\* HandleEvent does so, and HandleEvent is enabled exactly when an event
\* waits, so weak fairness on EventConsumed is weak fairness on
\* HandleEvent, stated without evaluating the handlers.
EventConsumed == evq # <<>> /\ evq' = Tail(evq)

\* The controller ends an inquiry, answers every name request and hands
\* every event over in finite time; the host's RX work runs whenever an
\* event waits.  The controller's steps are disabled only by the model's
\* bound MaxEvents on the event stream, which the host keeps draining, so
\* they are strongly fair.  The application gets no fairness.
Fairness ==
    /\ SF_vars(CtlInquiryComplete)
    /\ \A a \in Addrs : SF_vars(CtlRemoteName(a))
    /\ WF_evq(EventConsumed)

Spec == Init /\ [][Next]_vars /\ Fairness

----------------------------------------------------------------------------
(* Properties *)

ResultT == [addr : Addrs \cup {NoAddr}, rssi : Rssis \cup {0}, eir : EirKinds,
            resolving : BOOLEAN, updated : BOOLEAN]

\* The host's statics keep their types; discovery_results_count never
\* exceeds discovery_results_size, which is the length of the array.
TypeOK ==
    /\ host.inquiry \in BOOLEAN
    /\ host.discovery_cb \in BOOLEAN
    /\ host.results \in Seq(ResultT)
    /\ host.size \in {0} \cup ResultSizes
    /\ host.count \in 0..host.size
    /\ host.size > 0 => Len(host.results) = host.size
    /\ host.rnr \in [cb : BOOLEAN, addr : Addrs \cup {NoAddr}]
    /\ ctl \in [inquiring : BOOLEAN, names : SUBSET Addrs, reports : 0..MaxReports]
    /\ evq \in Seq(Events)
    /\ fails \in 0..MaxCmdFails
    /\ starts \in 0..MaxStarts
    /\ ghost \in [session : {"idle", "running"}, misuse : BOOLEAN]

\* discovery_cb is called only between a successful bt_br_discovery_start
\* and the call discovery_cb(NULL, 0) that ends it (or bt_br_discovery_stop):
\* never a second completion, never through a NULL pointer.
CallbackOnlyWhileDiscovering == ~ghost.misuse

ResultAddrs(h) == {h.results[i].addr : i \in Reported(h)}

\* Handling a Remote Name Request Complete event never drops a device the
\* inquiry found from the results: get_result_slot, called with rssi 0xff,
\* is meant to ignore an address it does not hold once the array is full.
NameEventKeepsResults ==
    [][evq # <<>> /\ Head(evq).type = "remote_name" /\ evq' = Tail(evq)
         => ResultAddrs(host) \subseteq ResultAddrs(host')]_vars

\* Every discovery the application starts ends: the application is told
\* it completed (or stops it itself).  Names being resolved must all be
\* answered and report_discovery_results must then see none pending.
DiscoveryCompletes == ghost.session = "running" ~> ghost.session = "idle"

\* Every bt_br_remote_name_request that returns 0 is answered: rnr_cb is
\* called and reset in finite time, so the next request is not refused
\* with -EBUSY for ever.
RemoteNameAnswered == host.rnr.cb ~> ~host.rnr.cb

=============================================================================
