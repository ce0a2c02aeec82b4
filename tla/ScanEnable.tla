----------------------------- MODULE ScanEnable -----------------------------
(***************************************************************************)
(* What bt_br_set_connectable and bt_br_set_discoverable promise, stated   *)
(* over the controller's scan enable alone: each call takes effect         *)
(* atomically, and is decided on the scan enable as it is when it takes   *)
(* effect.  Connectable is page scan; discoverable is inquiry scan on top  *)
(* of page scan, refused while not connectable.  A call that is refused,   *)
(* or whose HCI command fails, leaves the scan enable as it is.           *)
(***************************************************************************)
VARIABLE enabled   \* the scan enable: a subset of {"inquiry", "page"}

Init == enabled = {}

SetConnectable(enable) ==
    \/ enable /\ "page" \notin enabled /\ enabled' = {"page"}
    \/ ~enable /\ "page" \in enabled /\ enabled' = {}

SetDiscoverable(enable) ==
    \/ enable /\ "inquiry" \notin enabled /\ "page" \in enabled
       /\ enabled' = {"inquiry", "page"}
    \/ ~enable /\ "inquiry" \in enabled /\ enabled' = {"page"}

Next == \E enable \in BOOLEAN : SetConnectable(enable) \/ SetDiscoverable(enable)

Spec == Init /\ [][Next]_enabled

====
