------------------------------- MODULE KeysBr -------------------------------
(***************************************************************************)
(* The BR/EDR link-key pool of subsys/bluetooth/host/keys_br.c and its    *)
(* persistence through the settings subsystem.                              *)
(*                                                                         *)
(* `keys` holds the file's statics: key_pool (slots 1..MAX_PAIRED for the  *)
(* C indices 0..MAX_PAIRED-1), aging_counter_val and last_keys_updated     *)
(* (a slot, or NULL = 0).  It also holds `settings`, the records under     *)
(* "bt/link_key" in non-volatile storage, which outlive a reboot.  Each C  *)
(* function is an operator from this record to the next one.  A slot's     *)
(* val[16] is abstracted away; key_type and flags are kept.                *)
(*                                                                         *)
(* CONFIG_BT_SETTINGS is on.  CONFIG_BT_KEYS_OVERWRITE_OLDEST is the       *)
(* variable OVERWRITE_OLDEST, chosen once in Init and never changed, so    *)
(* that one run covers both builds.  SAVE_AGING_COUNTER_ON_PAIRING is a    *)
(* constant.                                                               *)
(***************************************************************************)
EXTENDS Naturals, Sequences, SequencesExt, FiniteSetsExt, Functions

CONSTANTS
    Addrs,                          \* BR/EDR peer addresses
    BT_ADDR_ANY,                    \* the all-zero address of a free slot
    CONFIG_BT_MAX_PAIRED,           \* size of key_pool
    OverwriteOldestBuilds,          \* values of CONFIG_BT_KEYS_OVERWRITE_OLDEST to check
    SAVE_AGING_COUNTER_ON_PAIRING,  \* CONFIG_BT_KEYS_SAVE_AGING_COUNTER_ON_PAIRING
    KeyTypes,                       \* HCI link key types the host may be given
    MaxCounter,                     \* bound on aging_counter_val for new uses
    MaxBoots,                       \* bound on reboots
    MaxBadRecords                   \* bound on wrong-length records at first boot

Slots == 1..CONFIG_BT_MAX_PAIRED
NULL == 0

\* HCI link key types (BT_LK_*) and link key flags (BT_LINK_KEY_*).
BT_LK_COMBINATION == 0
BT_LK_AUTH_COMBINATION_P192 == 5
BT_LK_AUTH_COMBINATION_P256 == 8
BT_LINK_KEY_AUTHENTICATED == "AUTHENTICATED"
BT_LINK_KEY_SC == "SC"

\* A record read back with this length is a stored key; any other length is
\* handled as a deleted or unreadable one (keys_br.c:249).
BT_KEYS_LINK_KEY_STORAGE_LEN == 1
BadLen == 0

\* A slot after memset(link_key, 0, ...): key_type 0 is BT_LK_COMBINATION.
ZeroKey == [addr |-> BT_ADDR_ANY, key_type |-> 0, flags |-> {}, aging_counter |-> 0]

\* The bytes from storage_start on, which settings_save_one writes.
Storage(key) == [key_type |-> key.key_type, flags |-> key.flags,
                 aging_counter |-> key.aging_counter]

VARIABLES
    OVERWRITE_OLDEST,   \* the build: CONFIG_BT_KEYS_OVERWRITE_OLDEST
    keys,       \* [key_pool, aging_counter_val, last_keys_updated, settings]
    loading,    \* addresses settings_load has yet to hand to link_key_set
    boots,      \* reboots so far
    recency,    \* ghost: bonded addresses, least recently used first
    evicted,    \* ghost: the address bt_keys_get_link_key evicted this step
    fault       \* ghost: link_key_set wrote through a NULL link_key

vars == <<OVERWRITE_OLDEST, keys, loading, boots, recency, evicted, fault>>

Bonded(s) == {s.key_pool[i].addr : i \in Slots} \ {BT_ADDR_ANY}

----------------------------------------------------------------------------
(* keys_br.c *)

bt_keys_find_link_key(s, addr) ==
    SelectInSeq(s.key_pool, LAMBDA key : key.addr = addr)

\* The first slot with the smallest aging_counter (the scan of lines 66-72).
OldestSlot(s) ==
    LET m == Min({s.key_pool[i].aging_counter : i \in Slots})
    IN  SelectInSeq(s.key_pool, LAMBDA key : key.aging_counter = m)

\* Fault variant: settings_delete is skipped, the record stays on flash.
bt_keys_link_key_clear_nodelete(s, i) ==
    [s EXCEPT !.key_pool[i] = ZeroKey]

bt_keys_link_key_clear(s, i) ==
    [s EXCEPT !.settings = Restrict(@, DOMAIN @ \ {s.key_pool[i].addr}),
              !.key_pool[i] = ZeroKey]

\* Fault variant: the oldest slot is overwritten without being cleared.
bt_keys_get_link_key_noclear(s, addr) ==
    LET free == bt_keys_find_link_key(s, BT_ADDR_ANY)
        slot == IF free # NULL \/ ~OVERWRITE_OLDEST THEN free ELSE OldestSlot(s)
    IN  IF bt_keys_find_link_key(s, addr) # NULL \/ slot = NULL THEN s
        ELSE [s EXCEPT !.key_pool[slot].addr = addr,
                       !.key_pool[slot].aging_counter =
                           IF OVERWRITE_OLDEST THEN s.aging_counter_val + 1 ELSE @,
                       !.aging_counter_val = IF OVERWRITE_OLDEST THEN @ + 1 ELSE @,
                       !.last_keys_updated = IF OVERWRITE_OLDEST THEN slot ELSE @]

\* The key for addr, created in the first free slot, or else (with
\* OVERWRITE_OLDEST) in the oldest slot after clearing it.  The caller finds
\* the slot again with bt_keys_find_link_key; it is NULL when the pool is full.
bt_keys_get_link_key(s, addr) ==
    LET free == bt_keys_find_link_key(s, BT_ADDR_ANY)
        slot == IF free # NULL \/ ~OVERWRITE_OLDEST THEN free ELSE OldestSlot(s)
        s1   == IF free = NULL /\ OVERWRITE_OLDEST
                THEN bt_keys_link_key_clear(s, slot) ELSE s
    IN  IF bt_keys_find_link_key(s, addr) # NULL \/ slot = NULL THEN s
        ELSE [s1 EXCEPT !.key_pool[slot].addr = addr,
                        !.key_pool[slot].aging_counter =
                            IF OVERWRITE_OLDEST THEN s.aging_counter_val + 1 ELSE @,
                        !.aging_counter_val = IF OVERWRITE_OLDEST THEN @ + 1 ELSE @,
                        !.last_keys_updated = IF OVERWRITE_OLDEST THEN slot ELSE @]

\* The address bt_keys_get_link_key(s, addr) evicts, or BT_ADDR_ANY.
EvictedBy(s, addr) ==
    IF /\ OVERWRITE_OLDEST
       /\ bt_keys_find_link_key(s, addr) = NULL
       /\ bt_keys_find_link_key(s, BT_ADDR_ANY) = NULL
    THEN s.key_pool[OldestSlot(s)].addr ELSE BT_ADDR_ANY

\* Fault variant: clearing all keys runs one slot past the pool.
bt_keys_link_key_clear_addr_past(s, addr) ==
    IF addr = NULL
    THEN [s EXCEPT !.key_pool = [i \in 1..CONFIG_BT_MAX_PAIRED + 1 |-> ZeroKey],
                   !.settings = Restrict(@, DOMAIN @ \ Bonded(s))]
    ELSE LET i == bt_keys_find_link_key(s, addr)
         IN  IF i = NULL THEN s ELSE bt_keys_link_key_clear(s, i)

bt_keys_link_key_clear_addr(s, addr) ==
    IF addr = NULL
    THEN [s EXCEPT !.key_pool = [i \in Slots |-> ZeroKey],
                   !.settings = Restrict(@, DOMAIN @ \ Bonded(s))]
    ELSE LET i == bt_keys_find_link_key(s, addr)
         IN  IF i = NULL THEN s ELSE bt_keys_link_key_clear(s, i)

bt_keys_link_key_store(s, i) ==
    [s EXCEPT !.settings =
        (s.key_pool[i].addr :> [len |-> BT_KEYS_LINK_KEY_STORAGE_LEN,
                                storage |-> Storage(s.key_pool[i])]) @@ @]

\* The flags the switch of bt_br_set_bond_info derives from key_type.
LinkKeyFlags(t) ==
    CASE t \in {BT_LK_COMBINATION, BT_LK_AUTH_COMBINATION_P192}
            -> {BT_LINK_KEY_AUTHENTICATED}
      [] t = BT_LK_AUTH_COMBINATION_P256
            -> {BT_LINK_KEY_AUTHENTICATED, BT_LINK_KEY_SC}
      [] OTHER -> {}

bt_br_set_bond_info(s, addr, key_type) ==
    LET s1 == bt_keys_get_link_key(s, addr)
        i  == bt_keys_find_link_key(s1, addr)
    IN  IF i = NULL THEN s1
        ELSE bt_keys_link_key_store(
               [s1 EXCEPT !.key_pool[i].key_type = key_type,
                          !.key_pool[i].flags = LinkKeyFlags(key_type)], i)

\* Fault variant: aging_counter_val is not raised to the restored counter.
link_key_set_nomax(s, addr, rec) ==
    LET s1 == bt_keys_get_link_key(s, addr)
        i  == bt_keys_find_link_key(s1, addr)
    IN  IF rec.len # BT_KEYS_LINK_KEY_STORAGE_LEN
        THEN IF i # NULL THEN bt_keys_link_key_clear(s1, i) ELSE s1
        ELSE IF i = NULL THEN s1
        ELSE [s1 EXCEPT !.key_pool[i] = [addr |-> addr] @@ rec.storage]

\* The settings handler for one "bt/link_key/<addr>" record rec.  A record
\* of the wrong length drops the key; a NULL link_key for a good record is
\* written through at line 259 (flagged by the `fault` ghost, the model
\* leaves the pool as it is).
link_key_set(s, addr, rec) ==
    LET s1 == bt_keys_get_link_key(s, addr)
        i  == bt_keys_find_link_key(s1, addr)
    IN  IF rec.len # BT_KEYS_LINK_KEY_STORAGE_LEN
        THEN IF i # NULL THEN bt_keys_link_key_clear(s1, i) ELSE s1
        ELSE IF i = NULL THEN s1
        ELSE [s1 EXCEPT !.key_pool[i] = [addr |-> addr] @@ rec.storage,
                        !.aging_counter_val =
                            IF OVERWRITE_OLDEST /\ @ < rec.storage.aging_counter
                            THEN rec.storage.aging_counter ELSE @]

\* Fault variant: the use is stamped with the current value, not ++.
bt_keys_link_key_update_usage_noinc(s, addr) ==
    LET i == bt_keys_find_link_key(s, addr)
        s1 == [s EXCEPT !.key_pool[i].aging_counter = s.aging_counter_val,
                        !.last_keys_updated = i]
    IN  IF i = NULL \/ s.last_keys_updated = i THEN s
        ELSE IF SAVE_AGING_COUNTER_ON_PAIRING
             THEN bt_keys_link_key_store(s1, i) ELSE s1

bt_keys_link_key_update_usage(s, addr) ==
    LET i == bt_keys_find_link_key(s, addr)
        s1 == [s EXCEPT !.key_pool[i].aging_counter = s.aging_counter_val + 1,
                        !.aging_counter_val = @ + 1,
                        !.last_keys_updated = i]
    IN  IF i = NULL \/ s.last_keys_updated = i THEN s
        ELSE IF SAVE_AGING_COUNTER_ON_PAIRING
             THEN bt_keys_link_key_store(s1, i) ELSE s1

----------------------------------------------------------------------------
(* The system around the pool *)

BadRecord == [len |-> BadLen, storage |-> Storage(ZeroKey)]

\* Flash at first boot: no keys of this build's layout, and possibly a few
\* records of another length, left by a build with another struct layout.
InitialSettings ==
    UNION {[D -> {BadRecord}] : D \in {D \in SUBSET Addrs : Cardinality(D) <= MaxBadRecords}}

PowerOn(settings) ==
    [key_pool |-> [i \in Slots |-> ZeroKey], aging_counter_val |-> 0,
     last_keys_updated |-> NULL, settings |-> settings]

Init ==
    /\ OVERWRITE_OLDEST \in OverwriteOldestBuilds
    /\ keys \in {PowerOn(st) : st \in InitialSettings}
    /\ loading = DOMAIN keys.settings
    /\ boots = 0
    /\ recency = <<>>
    /\ evicted = BT_ADDR_ANY
    /\ fault = FALSE

\* The host runs once settings_load has handed every record over.
Running == loading = {}

\* Makes addr the most recently used address.
Touch(r, addr) == Remove(r, addr) \o <<addr>>

\* Keeps the ghost order to the addresses bonded in s.
KeepBonded(r, s) == SelectSeq(r, LAMBDA x : x \in Bonded(s))

\* bt_br_set_bond_info called by the application; creating a key is a use.
SetBondInfo(addr, key_type) ==
    /\ Running
    /\ keys.aging_counter_val < MaxCounter
    /\ keys' = bt_br_set_bond_info(keys, addr, key_type)
    /\ evicted' = EvictedBy(keys, addr)
    /\ recency' = KeepBonded(IF addr \in Bonded(keys) THEN recency
                             ELSE Touch(recency, addr), keys')
    /\ UNCHANGED <<OVERWRITE_OLDEST, loading, boots, fault>>

\* bt_keys_link_key_update_usage, called when a connection uses the key.
UpdateUsage(addr) ==
    /\ Running
    /\ OVERWRITE_OLDEST
    /\ keys.aging_counter_val < MaxCounter
    /\ keys' = bt_keys_link_key_update_usage(keys, addr)
    /\ recency' = IF addr \in Bonded(keys) THEN Touch(recency, addr) ELSE recency
    /\ evicted' = BT_ADDR_ANY
    /\ UNCHANGED <<OVERWRITE_OLDEST, loading, boots, fault>>

\* bt_br_unpair(addr) (br.c:1367), or bt_keys_link_key_clear_addr(NULL).
Unpair(addr) ==
    /\ Running
    /\ keys' = bt_keys_link_key_clear_addr(keys, addr)
    /\ recency' = KeepBonded(recency, keys')
    /\ evicted' = BT_ADDR_ANY
    /\ UNCHANGED <<OVERWRITE_OLDEST, loading, boots, fault>>

\* Power loss or reset: RAM is lost, flash is kept, settings_load starts.
Reboot ==
    /\ boots < MaxBoots
    /\ keys' = PowerOn(keys.settings)
    /\ loading' = DOMAIN keys.settings
    /\ boots' = boots + 1
    /\ evicted' = BT_ADDR_ANY
    /\ UNCHANGED <<OVERWRITE_OLDEST, recency, fault>>

\* settings_load hands the record of addr to link_key_set, in any order.
\* A record deleted meanwhile is not handed over.
LinkKeySet(addr) ==
    /\ addr \in loading
    /\ LET rec == keys.settings[addr]
       IN  /\ keys' = link_key_set(keys, addr, rec)
           /\ fault' = (fault \/ /\ rec.len = BT_KEYS_LINK_KEY_STORAGE_LEN
                                 /\ bt_keys_find_link_key(
                                      bt_keys_get_link_key(keys, addr), addr) = NULL)
    /\ loading' = (loading \ {addr}) \cap DOMAIN keys'.settings
    /\ evicted' = EvictedBy(keys, addr)
    /\ UNCHANGED <<OVERWRITE_OLDEST, boots, recency>>

Next ==
    \/ \E a \in Addrs, t \in KeyTypes : SetBondInfo(a, t)
    \/ \E a \in Addrs : UpdateUsage(a)
    \/ \E a \in Addrs \cup {NULL} : Unpair(a)
    \/ Reboot
    \/ \E a \in Addrs : LinkKeySet(a)

Spec == Init /\ [][Next]_vars

----------------------------------------------------------------------------
(* Properties *)

CounterLimit == MaxCounter + Cardinality(Addrs)

KeyRec == [addr : Addrs \cup {BT_ADDR_ANY}, key_type : KeyTypes \cup {0},
           flags : SUBSET {BT_LINK_KEY_AUTHENTICATED, BT_LINK_KEY_SC},
           aging_counter : 0..CounterLimit]

\* Every variable holds a value of its C type; key_pool has exactly
\* CONFIG_BT_MAX_PAIRED slots (bt_keys_link_key_clear_addr(NULL) stays in it).
TypeOK ==
    /\ OVERWRITE_OLDEST \in BOOLEAN
    /\ keys.key_pool \in [Slots -> KeyRec]
    /\ keys.aging_counter_val \in 0..CounterLimit
    /\ keys.last_keys_updated \in Slots \cup {NULL}
    /\ DOMAIN keys.settings \subseteq Addrs
    /\ \A a \in DOMAIN keys.settings :
           keys.settings[a] \in [len : {BT_KEYS_LINK_KEY_STORAGE_LEN, BadLen},
                                 storage : [key_type : KeyTypes \cup {0},
                                            flags : SUBSET {BT_LINK_KEY_AUTHENTICATED, BT_LINK_KEY_SC},
                                            aging_counter : 0..CounterLimit]]
    /\ loading \subseteq Addrs
    /\ boots \in 0..MaxBoots
    /\ recency \in Seq(Addrs)
    /\ evicted \in Addrs \cup {BT_ADDR_ANY}
    /\ fault \in BOOLEAN

\* Once loading is over, RAM and flash agree: an address has a stored
\* record exactly when it has a slot, it has only one slot, and the record
\* holds the slot's key type, flags and (when uses are saved) its aging
\* counter.  This is what eviction in bt_keys_get_link_key, the
\* settings_delete in bt_keys_link_key_clear and the stores must keep.
PoolMatchesStore ==
    Running =>
    /\ DOMAIN keys.settings = Bonded(keys)
    /\ \A i, j \in Slots :
           i # j /\ keys.key_pool[i].addr # BT_ADDR_ANY
               => keys.key_pool[i].addr # keys.key_pool[j].addr
    /\ \A i \in Slots :
           LET key == keys.key_pool[i] IN
           key.addr # BT_ADDR_ANY =>
               LET rec == keys.settings[key.addr] IN
               /\ rec.len = BT_KEYS_LINK_KEY_STORAGE_LEN
               /\ rec.storage.key_type = key.key_type
               /\ rec.storage.flags = key.flags
               /\ SAVE_AGING_COUNTER_ON_PAIRING =>
                      rec.storage.aging_counter = key.aging_counter

\* aging_counter_val is never behind a slot's counter, also after
\* link_key_set restored counters from flash; otherwise the next key
\* created would look older than a restored one and be evicted first.
CounterAhead ==
    \A i \in Slots : keys.key_pool[i].aging_counter <= keys.aging_counter_val

\* In the build without OVERWRITE_OLDEST, link_key_set never writes through the NULL
\* that bt_keys_get_link_key returns on a full pool (line 259): flash never
\* holds more keys than the pool, across any unpairing and reboots.
LoadNeverDerefsNull == ~fault

\* The key a step drops to make room is the least recently used one:
\* created or passed to bt_keys_link_key_update_usage longest ago.
LruEviction == evicted' # BT_ADDR_ANY => recency # <<>> /\ evicted' = Head(recency)

\* When bt_keys_get_link_key overwrites a key to make room, the key it
\* drops is the least recently used one.
EvictsLeastRecentlyUsed == [][LruEviction]_vars

\* Until the first reboot, while no key has come back from flash through
\* link_key_set, every eviction of the OVERWRITE_OLDEST build drops the
\* least recently used key: the aging counters and last_keys_updated kept
\* by pairing and bt_keys_link_key_update_usage order the pool correctly.
EvictsLeastRecentlyUsedBeforeReboot == [][boots = 0 => LruEviction]_vars

=============================================================================
