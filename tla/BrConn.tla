------------------------------- MODULE BrConn -------------------------------
(***************************************************************************)
(* BR/EDR connection set-up and scan enable of subsys/bluetooth/host/br.c. *)
(*                                                                         *)
(* `conns` is the host's ACL bt_conn objects, one per peer at most (the    *)
(* controller sends no Connection Request for a peer the host holds a      *)
(* connection to), and `scos` its SCO objects.  A freed object is NoConn.  *)
(* The bt_conn functions of conn.c are not in this repository; the model   *)
(* takes their documented effect: bt_conn_add_br/add_sco allocate from a   *)
(* pool of MaxAcl/MaxSco, bt_conn_set_state(DISCONNECTED) of an object     *)
(* nobody else holds frees it, bt_conn_lookup_handle finds only CONNECTED  *)
(* objects, bt_conn_disconnect asks the controller to drop the link.       *)
(*                                                                         *)
(* `link` is the controller's view of each peer: no link, a Connection     *)
(* Request it is waiting to have answered, an accepted request or an       *)
(* outgoing page, or a link that is up, with the encryption key size it    *)
(* negotiated and the feature reads the host asked for.  HCI events are    *)
(* handled as they are produced, one at a time, in the RX thread.          *)
(*                                                                         *)
(* `callers` are threads of the application calling bt_br_set_connectable *)
(* and bt_br_set_discoverable.  bt_hci_cmd_send_sync blocks: the command   *)
(* goes to the controller's FIFO `cmdq`, the controller answers, and the   *)
(* caller resumes later, when the scheduler runs it.                       *)
(***************************************************************************)
EXTENDS Integers, Sequences, FiniteSets

CONSTANTS
    Peers,          \* remote BR/EDR addresses
    Callers,        \* application threads using the scan API
    NoConn,         \* a freed (or never allocated) bt_conn
    KeySizes,       \* encryption key sizes a controller may negotiate
    ReqLevels,      \* required_sec_level a connection may be created with
    MaxAcl,         \* CONFIG_BT_MAX_CONN
    MaxSco,         \* CONFIG_BT_MAX_SCO_CONN
    MaxCmdFails     \* bound on HCI commands failing for want of a buffer or
                    \* an error status

\* BT_HCI_ENCRYPTION_KEY_SIZE_MIN and _MAX of hci.h.
KEY_SIZE_MIN == 7
KEY_SIZE_MAX == 16

\* BT_BREDR_SCAN_INQUIRY and BT_BREDR_SCAN_PAGE as the two bits of a scan
\* enable value; BT_BREDR_SCAN_DISABLED is the empty set.
ScanVals == SUBSET {"inquiry", "page"}

Conn == [state : {"DISCONNECTED", "CONNECTING", "CONNECTED"},
         role : {"central", "peripheral"},
         encrypt : {0, 1, 2}, sec_level : 1..4, required_sec_level : 1..4,
         link_key : {"none", "unauthenticated", "authenticated"},
         pend : BOOLEAN, attempt_sec_level : 1..4,
         pairing : {"none", "pending", "reported", "started"},
         completed : BOOLEAN, disconnecting : BOOLEAN,
         features : {"unknown", "noext", "ext"}, features1 : BOOLEAN,
         mode : {"active", "sniff"}]

VARIABLES
    conns,     \* ACL bt_conn per peer, or NoConn
    scos,      \* SCO bt_conn state per peer, or NoConn
    link,      \* the controller's state of each peer
    flags,     \* BT_DEV_ISCAN and BT_DEV_PSCAN of bt_dev.flags
    scan,      \* the controller's scan enable
    callers,   \* each scan API caller: idle, blocked in send_sync, resumed
    cmdq,      \* Write Scan Enable commands not yet executed, oldest first
    fails      \* commands failed so far

vars == <<conns, scos, link, flags, scan, callers, cmdq, fails>>

----------------------------------------------------------------------------
(* Security level of a new connection *)

\* A mutant of br_sufficient_key_size: any key size the controller reads
\* back is accepted, as before the KNOB fix.
br_sufficient_key_size_anysize(c, ks) == ks # 0

\* br_sufficient_key_size: ks is the key size Read Encryption Key Size
\* returns, or 0 when the command or its response fails.
br_sufficient_key_size(c, ks) ==
    /\ ks # 0
    /\ IF c.sec_level = 4 THEN ks = KEY_SIZE_MAX ELSE ks >= KEY_SIZE_MIN

\* bt_br_update_sec_level: the level the encryption and the link key give,
\* then the key size and required_sec_level checks; a failed check asks
\* for a disconnection with BT_HCI_ERR_AUTH_FAIL.
bt_br_update_sec_level(c, ks) ==
    IF c.encrypt = 0 THEN [ok |-> TRUE, c |-> [c EXCEPT !.sec_level = 1]]
    ELSE LET lvl == IF c.link_key = "authenticated"
                    THEN IF c.encrypt = 2 THEN 4 ELSE 3
                    ELSE 2
             c1  == [c EXCEPT !.sec_level = lvl]
         IN  IF ~br_sufficient_key_size(c1, ks) \/ c1.required_sec_level > lvl
             THEN [ok |-> FALSE, c |-> [c1 EXCEPT !.disconnecting = TRUE]]
             ELSE [ok |-> TRUE, c |-> c1]

----------------------------------------------------------------------------
(* HCI event handlers *)

Pooled(objs) == Cardinality({p \in Peers : objs[p] # NoConn})

NewConn(role, req, lk, st) ==
    [state |-> st, role |-> role, encrypt |-> 0, sec_level |-> 1,
     required_sec_level |-> req, link_key |-> lk, pend |-> FALSE,
     attempt_sec_level |-> 1, pairing |-> "none", completed |-> FALSE,
     disconnecting |-> FALSE, features |-> "unknown", features1 |-> FALSE,
     mode |-> "active"]

\* bt_hci_conn_req for an ACL link.  auto is bt_conn_is_auto(), acceptOK
\* whether bt_accept_conn succeeds, req and lk what conn.c gives the new
\* object.  A request handed to the application is left unanswered here;
\* the controller times it out.  Result: the new conns and the
\* controller's state of the peer.
AclConnReq(p, auto, acceptOK, req, lk) ==
    IF Pooled(conns) >= MaxAcl
    THEN [conns |-> conns, link |-> "none"]          \* rejected
    ELSE IF ~auto
    THEN [conns |-> [conns EXCEPT ![p] = NewConn("central", req, lk, "DISCONNECTED")],
          link |-> "request"]
    ELSE IF ~acceptOK
    THEN [conns |-> conns, link |-> "none"]          \* rejected, unref frees it
    ELSE [conns |-> [conns EXCEPT ![p] = NewConn("peripheral", req, lk, "CONNECTING")],
          link |-> "accepted"]

\* bt_esco_conn_req: the same for a SCO link, whose object lives in scos.
bt_esco_conn_req(p, auto, acceptOK) ==
    IF Pooled(scos) >= MaxSco \/ conns[p] = NoConn THEN scos
    ELSE IF ~auto THEN [scos EXCEPT ![p] = "DISCONNECTED"]
    ELSE IF ~acceptOK THEN scos                       \* bt_sco_cleanup
    ELSE [scos EXCEPT ![p] = "CONNECTING"]

\* bt_hci_conn_complete with status 0.  ks is the key size the controller
\* reports (0 when reading it fails), secOK whether bt_conn_set_security
\* succeeds.  An error status frees the object (a pending pairing is told
\* through bt_conn_security_changed first).
ConnSucceeded(c0, encr, ks, secOK) ==
    LET c  == [c0 EXCEPT !.encrypt = encr, !.completed = TRUE]
        u  == bt_br_update_sec_level(c, ks)
        c1 == [u.c EXCEPT !.state = "CONNECTED"]
    IN  IF ~u.ok THEN u.c
        ELSE IF ~c1.pend THEN c1
        ELSE IF secOK THEN [c1 EXCEPT !.pend = FALSE, !.pairing = "started"]
        ELSE [c1 EXCEPT !.pend = FALSE, !.pairing = "reported", !.disconnecting = TRUE]

\* bt_hci_read_remote_features_complete on a CONNECTED object: page 0 is
\* stored and, when it has the extended features bit, page 1 is asked for.
RemoteFeatures(c, ext) == [c EXCEPT !.features = IF ext THEN "ext" ELSE "noext"]

\* bt_hci_read_remote_ext_features_complete: page 1 is stored.
RemoteExtFeatures(c, page) == [c EXCEPT !.features1 = @ \/ page = 1]

\* A mutant of LinkModeChange: the mode is recorded whatever it is.
LinkModeChange_anymode(c, mode) == [c EXCEPT !.mode = mode]

\* bt_hci_link_mode_change on a CONNECTED BR object with status 0: only
\* active and sniff mode are recorded.
LinkModeChange(c, mode) ==
    IF mode \in {"active", "sniff"} THEN [c EXCEPT !.mode = mode] ELSE c

----------------------------------------------------------------------------
(* Scan enable *)

\* What bt_br_set_connectable / bt_br_set_discoverable do: write the scan
\* enable value v, or return err before sending anything.
Write(v) == [err |-> "none", v |-> v]
Refuse(e) == [err |-> e, v |-> {}]

set_connectable(f, enable) ==
    IF enable THEN IF f.pscan THEN Refuse("EALREADY") ELSE Write({"page"})
    ELSE IF ~f.pscan THEN Refuse("EALREADY") ELSE Write({})

\* A mutant of set_discoverable: the -EPERM check for a device that is not
\* connectable is left out.
set_discoverable_noperm(f, enable) ==
    IF enable
    THEN IF f.iscan THEN Refuse("EALREADY") ELSE Write({"inquiry", "page"})
    ELSE IF ~f.iscan THEN Refuse("EALREADY") ELSE Write({"page"})

set_discoverable(f, enable) ==
    IF enable
    THEN IF f.iscan THEN Refuse("EALREADY")
         ELSE IF ~f.pscan THEN Refuse("EPERM") ELSE Write({"inquiry", "page"})
    ELSE IF ~f.iscan THEN Refuse("EALREADY") ELSE Write({"page"})

\* write_scan_enable after bt_hci_cmd_send_sync returned 0.
write_scan_enable(v) == [iscan |-> "inquiry" \in v, pscan |-> "page" \in v]



----------------------------------------------------------------------------
(* The controller, conn.c and the application *)

NoLink == [st |-> "none", ks |-> 0, feat |-> {}, sco |-> "none"]

Init ==
    /\ conns = [p \in Peers |-> NoConn]
    /\ scos = [p \in Peers |-> NoConn]
    /\ link = [p \in Peers |-> NoLink]
    /\ flags = [iscan |-> FALSE, pscan |-> FALSE]
    /\ scan = {}
    /\ callers = [c \in Callers |-> [pc |-> "idle", v |-> {}]]
    /\ cmdq = <<>>
    /\ fails = 0

\* Whether a command fails, within the bound.
FailChoices == IF fails < MaxCmdFails THEN BOOLEAN ELSE {FALSE}
Charge(fs) ==
    LET n == Cardinality({i \in DOMAIN fs : fs[i]})
    IN  fails + n <= MaxCmdFails /\ fails' = fails + n

LinkKeys == {"none", "unauthenticated", "authenticated"}

\* A peer pages us while page scan is on: HCI Connection Request.
ConnRequest(p) ==
    /\ "page" \in scan
    /\ link[p].st = "none" /\ conns[p] = NoConn
    /\ \E auto \in BOOLEAN, fail \in FailChoices, req \in ReqLevels, lk \in LinkKeys :
          LET r == AclConnReq(p, auto, ~fail, req, lk)
          IN  /\ conns' = r.conns
              /\ link' = [link EXCEPT ![p].st = r.link]
              /\ Charge(<<fail>>)
    /\ UNCHANGED <<scos, flags, scan, callers, cmdq>>

\* A peer with an ACL link asks for a SCO link.
ScoRequest(p) ==
    /\ link[p].st = "up" /\ link[p].sco = "none"
    /\ \E auto \in BOOLEAN, fail \in FailChoices :
          LET s == bt_esco_conn_req(p, auto, ~fail)
          IN  /\ scos' = s
              /\ link' = [link EXCEPT ![p].sco = CASE s[p] = "CONNECTING" -> "accepted"
                                                   [] s[p] = "DISCONNECTED" -> "request"
                                                   [] OTHER -> "none"]
              /\ Charge(<<fail>>)
    /\ UNCHANGED <<conns, flags, scan, callers, cmdq>>

\* HCI Synchronous Connection Complete: success only for an accepted
\* request; an error status (or the accept timeout) frees the object.
SyncConnComplete(p) ==
    /\ link[p].sco \in {"request", "accepted"}
    /\ \E ok \in IF link[p].sco = "accepted" THEN BOOLEAN ELSE {FALSE} :
          /\ link' = [link EXCEPT ![p].sco = IF ok THEN "up" ELSE "none"]
          /\ scos' = IF scos[p] = NoConn THEN scos
                     ELSE [scos EXCEPT ![p] = IF ok THEN "CONNECTED" ELSE NoConn]
    /\ UNCHANGED <<conns, flags, scan, callers, cmdq, fails>>

\* bt_conn_create_br (conn.c): an outgoing connection.
CreateConn(p) ==
    /\ link[p].st = "none" /\ conns[p] = NoConn
    /\ Pooled(conns) < MaxAcl
    /\ \E req \in ReqLevels, lk \in LinkKeys :
          conns' = [conns EXCEPT ![p] = NewConn("central", req, lk, "CONNECTING")]
    /\ link' = [link EXCEPT ![p].st = "paging"]
    /\ UNCHANGED <<scos, flags, scan, callers, cmdq, fails>>

\* bt_conn_set_security (conn.c) on a connection still being set up:
\* BT_CONN_BR_PAIRING_CONN_PEND and attempt_sec_level are set and the
\* security procedure deferred to Connection Complete.
SetSecurityPending(p) ==
    /\ conns[p] # NoConn
    /\ conns[p].state = "CONNECTING" /\ ~conns[p].completed
    /\ conns[p].pairing = "none"
    /\ \E lvl \in 2..4 :
          conns' = [conns EXCEPT ![p] = [@ EXCEPT !.pend = TRUE,
                                               !.attempt_sec_level = lvl,
                                               !.pairing = "pending"]]
    /\ UNCHANGED <<scos, link, flags, scan, callers, cmdq, fails>>

\* HCI Connection Complete: an error status (page or accept timeout,
\* rejection) for any request, status 0 for an accepted one or a page.
\* On status 0 the host goes on to Read Remote Features unless
\* bt_hci_conn_complete returned early or the buffer allocation fails.
ConnComplete(p) ==
    /\ link[p].st \in {"request", "accepted", "paging"}
    /\ \/ /\ link' = [link EXCEPT ![p] = NoLink]
          /\ conns' = [conns EXCEPT ![p] = NoConn]
          /\ UNCHANGED fails
       \/ /\ link[p].st \in {"accepted", "paging"}
          /\ conns[p] # NoConn
          /\ \E encr \in {0, 1}, ks \in KeySizes, ksFail, secFail, featFail \in FailChoices :
                LET k  == IF encr = 0 \/ ksFail THEN 0 ELSE ks
                    c1 == ConnSucceeded(conns[p], encr, k, ~secFail)
                    rd == c1.state = "CONNECTED" /\ ~c1.disconnecting /\ ~featFail
                IN  /\ encr = 0 => ks = CHOOSE x \in KeySizes : TRUE
                    /\ conns' = [conns EXCEPT ![p] = c1]
                    /\ link' = [link EXCEPT ![p].st = "up", ![p].ks = k,
                                            ![p].feat = IF rd THEN {0} ELSE {}]
                    /\ Charge(<<ksFail, secFail, featFail>>)
    /\ UNCHANGED <<scos, flags, scan, callers, cmdq>>

\* Connected: bt_conn_lookup_handle finds the object.
Connected(p) == conns[p] # NoConn /\ conns[p].state = "CONNECTED"

\* HCI Read Remote Features Complete for the page 0 read.
RemoteFeaturesComplete(p) ==
    /\ 0 \in link[p].feat
    /\ \E ok, ext \in BOOLEAN, fail \in FailChoices :
          LET asks == Connected(p) /\ ok /\ ext /\ ~fail
          IN  /\ conns' = IF Connected(p) /\ ok
                          THEN [conns EXCEPT ![p] = RemoteFeatures(@, ext)] ELSE conns
              /\ link' = [link EXCEPT ![p].feat = (@ \ {0}) \cup (IF asks THEN {1} ELSE {})]
              /\ Charge(<<fail>>)
    /\ UNCHANGED <<scos, flags, scan, callers, cmdq>>

\* HCI Read Remote Extended Features Complete for the page 1 read.
RemoteExtFeaturesComplete(p) ==
    /\ 1 \in link[p].feat
    /\ \E ok \in BOOLEAN :
          conns' = IF Connected(p) /\ ok
                   THEN [conns EXCEPT ![p] = RemoteExtFeatures(@, 1)] ELSE conns
    /\ link' = [link EXCEPT ![p].feat = @ \ {1}]
    /\ UNCHANGED <<scos, flags, scan, callers, cmdq, fails>>

\* HCI Role Change, during set-up or on a link that is up.
RoleChange(p) ==
    /\ link[p].st \in {"accepted", "paging", "up"}
    /\ conns[p] # NoConn
    /\ \E role \in {"central", "peripheral"} :
          conns' = [conns EXCEPT ![p].role = role]
    /\ UNCHANGED <<scos, link, flags, scan, callers, cmdq, fails>>

\* HCI Mode Change on a link that is up.
ModeChange(p) ==
    /\ link[p].st = "up" /\ Connected(p)
    /\ \E mode \in {"active", "hold", "sniff"} :
          conns' = [conns EXCEPT ![p] = LinkModeChange(@, mode)]
    /\ UNCHANGED <<scos, link, flags, scan, callers, cmdq, fails>>

\* HCI Disconnection Complete: the link drops, by either side.  Only a
\* CONNECTED object is found by its handle and freed.
Disconnect(p) ==
    /\ link[p].st = "up"
    /\ link' = [link EXCEPT ![p] = NoLink]
    /\ conns' = IF Connected(p) THEN [conns EXCEPT ![p] = NoConn] ELSE conns
    /\ scos' = [scos EXCEPT ![p] = NoConn]
    /\ UNCHANGED <<flags, scan, callers, cmdq, fails>>

\* A caller enters bt_br_set_connectable or bt_br_set_discoverable; when
\* a scan value is to be written and the command buffer is allocated, it
\* blocks in bt_hci_cmd_send_sync.
CallScan(c) ==
    /\ callers[c].pc = "idle"
    /\ \E discoverable, enable \in BOOLEAN, fail \in FailChoices :
          LET r == IF discoverable THEN set_discoverable(flags, enable)
                   ELSE set_connectable(flags, enable)
          IN  /\ r.err = "none"
              /\ callers' = [callers EXCEPT ![c] = [pc |-> IF fail THEN "idle" ELSE "blocked",
                                                    v |-> r.v]]
              /\ cmdq' = IF fail THEN cmdq ELSE Append(cmdq, c)
              /\ Charge(<<fail>>)
    /\ UNCHANGED <<conns, scos, link, flags, scan>>

\* The controller executes the oldest Write Scan Enable and answers.
ExecScan ==
    /\ cmdq # <<>>
    /\ LET c == Head(cmdq) IN
       \E fail \in FailChoices :
          /\ scan' = IF fail THEN scan ELSE callers[c].v
          /\ callers' = [callers EXCEPT ![c].pc = IF fail THEN "err" ELSE "ok"]
          /\ Charge(<<fail>>)
    /\ cmdq' = Tail(cmdq)
    /\ UNCHANGED <<conns, scos, link, flags>>

\* A mutant of ResumeScan: the flags are set whether or not the command
\* succeeded.
ResumeScan_anyerr(c) ==
    /\ callers[c].pc \in {"ok", "err"}
    /\ flags' = write_scan_enable(callers[c].v)
    /\ callers' = [callers EXCEPT ![c].pc = "idle"]
    /\ UNCHANGED <<conns, scos, link, scan, cmdq, fails>>

\* The caller runs again: write_scan_enable sets the flags from the value
\* it wrote when send_sync returned 0.
ResumeScan(c) ==
    /\ callers[c].pc \in {"ok", "err"}
    /\ flags' = IF callers[c].pc = "ok" THEN write_scan_enable(callers[c].v) ELSE flags
    /\ callers' = [callers EXCEPT ![c].pc = "idle"]
    /\ UNCHANGED <<conns, scos, link, scan, cmdq, fails>>

Next ==
    \/ \E p \in Peers :
          \/ ConnRequest(p) \/ ScoRequest(p) \/ SyncConnComplete(p)
          \/ CreateConn(p) \/ SetSecurityPending(p) \/ ConnComplete(p)
          \/ RemoteFeaturesComplete(p) \/ RemoteExtFeaturesComplete(p)
          \/ RoleChange(p) \/ ModeChange(p) \/ Disconnect(p)
    \/ \E c \in Callers : CallScan(c) \/ ResumeScan(c)
    \/ ExecScan

Spec == Init /\ [][Next]_vars

----------------------------------------------------------------------------
(* Properties *)

\* The objects keep their types and never outnumber their pools.
TypeOK ==
    /\ conns \in [Peers -> Conn \cup {NoConn}]
    /\ Pooled(conns) <= MaxAcl /\ Pooled(scos) <= MaxSco
    /\ scos \in [Peers -> {"DISCONNECTED", "CONNECTING", "CONNECTED", NoConn}]
    /\ link \in [Peers -> [st : {"none", "request", "accepted", "paging", "up"},
                           ks : {0} \cup KeySizes, feat : SUBSET {0, 1},
                           sco : {"none", "request", "accepted", "up"}]]
    /\ flags \in [iscan : BOOLEAN, pscan : BOOLEAN]
    /\ scan \in ScanVals
    /\ callers \in [Callers -> [pc : {"idle", "blocked", "ok", "err"}, v : ScanVals]]
    /\ cmdq \in Seq(Callers)
    /\ fails \in 0..MaxCmdFails

\* Whenever no scan call is in progress, BT_DEV_ISCAN and BT_DEV_PSCAN say
\* what the controller's scan enable is: bt_br_set_connectable and
\* bt_br_set_discoverable decide from the flags alone, so a stale flag
\* makes them skip a write that is needed or refuse with -EPERM.
ScanFlagsMatchController ==
    (\A c \in Callers : callers[c].pc = "idle") => flags = write_scan_enable(scan)

\* A link that comes up encrypted is reported CONNECTED only with the
\* security level it requires and a key the controller negotiated long
\* enough for that level (the KNOB check of br_sufficient_key_size).  An
\* unencrypted link is connected at BT_SECURITY_L1 and its security raised
\* later, so it is not constrained here.
SecureWhenConnected ==
    \A p \in Peers : Connected(p) /\ conns[p].encrypt # 0 =>
        /\ conns[p].sec_level >= conns[p].required_sec_level
        /\ IF conns[p].sec_level = 4 THEN link[p].ks = KEY_SIZE_MAX
           ELSE link[p].ks >= KEY_SIZE_MIN

Abstract == INSTANCE ScanEnable WITH enabled <- scan

\* The scan enable the controller goes through is one that atomic calls of
\* bt_br_set_connectable and bt_br_set_discoverable, each decided on the
\* scan enable it changes, could produce (ScanEnable).  The code decides
\* on BT_DEV_ISCAN/PSCAN before blocking in bt_hci_cmd_send_sync, so this
\* holds only while those flags are fresh when the command executes.
ScanRefinement == Abstract!Spec

\* A pairing requested while the connection was being set up
\* (BT_CONN_BR_PAIRING_CONN_PEND) is settled by the Connection Complete:
\* security is started, or bt_conn_security_changed reports the failure.
PairingAnswered ==
    \A p \in Peers : conns[p] # NoConn /\ conns[p].completed =>
        conns[p].pairing # "pending"

====
