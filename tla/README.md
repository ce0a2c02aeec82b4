# TLA+ models of external_zblue

This directory holds TLA+ models of the parts of this repository that have
behaviour worth model checking. They are checked with TLC. Five parts are modelled:

- the PB-ADV provisioning bearer of Bluetooth Mesh
  (`src/subsys/bluetooth/mesh/pb_adv.c`);
- the BR/EDR link-key pool (`src/subsys/bluetooth/host/keys_br.c`);
- BR/EDR discovery and remote name requests
  (`src/subsys/bluetooth/host/br.c`);
- BR/EDR connection set-up and the scan-enable API (also `br.c`);
- the mcumgr CBOR attribute decoder
  (`src/subsys/mgmt/mcumgr/lib/cborattr/src/cborattr.c`).

`PROJECT.json` lists:

- every component, modelled or not;
- the TLC runs;
- the fault variants used to confirm that each property can fail;
- the source lines each definition models;
- the findings;
- the hazards.

## The system

| Part | Source | Status |
|------|--------|--------|
| PB-ADV bearer: link control, segmentation, reassembly, acks, timers | `subsys/bluetooth/mesh/pb_adv.c` | modelled (PbAdvSeg, PbAdv) |
| Provisioning session (prov.c) that drives the bearer | not in this repository | modelled as the environment of PbAdv |
| BR/EDR link-key pool, its flash records and `bt_br_unpair` | `subsys/bluetooth/host/keys_br.c`, `br.c` | modelled (KeysBr) |
| BR/EDR discovery and remote name requests | `subsys/bluetooth/host/br.c` | modelled (BrDiscovery) |
| BR/EDR connection requests and completion, security level, feature reads, role and mode change, scan enable | `subsys/bluetooth/host/br.c` | modelled (BrConn, ScanEnable); conn.c, which owns `struct bt_conn`, is not in this repository and is modelled at its interface |
| BR/EDR init, scan-activity, scan-type, class-of-device, local-name and delete-link-key writers | `subsys/bluetooth/host/br.c` | not modelled: each sends HCI commands or copies controller values into `bt_dev` that no modelled operation reads |
| CBOR attribute decoder | `subsys/mgmt/mcumgr/lib/cborattr/src/cborattr.c` | modelled (Cborattr), except unnamed attributes |
| Shell, cbprintf, init, LCD driver, pinmux, samples, headers, tests | see PROJECT.json | not modelled: I/O, formatting or constant data |

### How PB-ADV works

PB-ADV carries provisioning PDUs between a provisioner and an unprovisioned
device over advertising frames. Both sides run the same file with one
static `pb_link`.

1. **Opening a link.** The provisioner calls `prov_link_open`, which sends
   Link Open reliably. The device, waiting after `prov_link_accept`, answers
   with Link Ack (`link_open`). The provisioner's first Link Ack opens the
   link on its side (`link_ack`).
2. **Sending a PDU.** The upper layer calls `prov_send_adv`. It cancels the
   transaction in flight, cuts the PDU into a Start frame and up to two
   Continuation frames, and sends them reliably (`send_reliable`). The
   retransmit work resends them every retransmit period until a
   Transaction Ack arrives (`gen_prov_ack`). After TRANSACTION_TIMEOUT
   (`prov_retransmit`) it gives up and closes the link.
3. **Receiving a PDU.** The receiver reassembles with a missing-segment
   bitmap `rx.seg` (`gen_prov_start`, `gen_prov_cont`). It checks the FCS,
   acks and delivers (`prov_msg_recv`). Duplicates of a completed
   transaction are only re-acked.
4. **Closing a link.** `prov_link_close` sets CLOSING and sends Link Close
   unacked. When the advertiser has sent it, `buf_sent` resets the link.
   The peer closes on receipt (`link_close`). `protocol_timeout` closes an
   idle link after PROTOCOL_TIMEOUT.

### How the link-key pool works

`keys_br.c` keeps CONFIG_BT_MAX_PAIRED link keys in `key_pool`. Each key
is also stored in flash as a settings record `bt/link_key/<addr>`.

1. **Pairing.** `bt_br_set_bond_info` finds or creates the key of an
   address (`bt_keys_get_link_key`), sets its type and flags, and stores
   it. On a full pool, the OVERWRITE_OLDEST build evicts the key with the
   smallest `aging_counter` and deletes its record
   (`bt_keys_link_key_clear`). The other build returns NULL.
2. **Use.** `bt_keys_link_key_update_usage` stamps a key with
   `++aging_counter_val`, unless it is `last_keys_updated`, the key
   stamped last. With SAVE_AGING_COUNTER_ON_PAIRING the key is stored
   again.
3. **Unpairing.** `bt_br_unpair` (br.c) clears one key or, for NULL,
   every key, through `bt_keys_link_key_clear_addr`.
4. **Boot.** RAM is lost. `settings_load` hands every record to
   `link_key_set`, in the backend's order. It recreates the key and
   restores its aging counter, raising `aging_counter_val` to match. A
   record of the wrong length drops the key.

### How discovery works

The application calls `bt_br_discovery_start` with a result array. HCI
Inquiry starts, and the controller reports devices as Inquiry Result and
Extended Inquiry Result events.

- `get_result_slot` gives each device a slot: the one it has, a free one,
  or, on a full array, the one with the weakest signal not stronger than
  the new one.
- `report_discovery_results` passes each named, updated result to
  `discovery_cb`.
- At Inquiry Complete, `report_discovery_complete` sends Remote Name
  Request for every unnamed result and marks it `resolving`.
- Each Remote Name Request Complete event adds the name to the result's
  EIR. When no result is left resolving, the discovery ends with
  `discovery_cb(NULL, 0)`.
- `bt_br_discovery_stop` cancels the inquiry and resets the statics.

Independently, `bt_br_remote_name_request` asks for one device's name
with its own callback `rnr_cb`. That request shares the result slots and
the event handler with discovery.

### How connection set-up works

A peer that pages the device while page scan is on causes an HCI
Connection Request. `bt_hci_conn_req` allocates a `bt_conn` (or rejects
the request when the pool is full). It either accepts at once as
peripheral (`bt_conn_is_auto`) or hands the request to the application.
A SCO request over an existing ACL link goes the same way through
`bt_esco_conn_req`. Outgoing connections are created in conn.c.

`bt_hci_conn_complete` ends the set-up.
- An error status frees the object. A pairing the application asked for
  while connecting (BT_CONN_BR_PAIRING_CONN_PEND) is told it failed.
- Status 0 records the handle and whether the link is encrypted.
  `bt_br_update_sec_level` then derives the security level from the
  encryption and the link key. On an encrypted link it reads the key
  size from the controller (`br_sufficient_key_size`, the KNOB check) and
  compares the level with `required_sec_level`. A failed check asks for a
  disconnection and returns early.
- Otherwise the connection is CONNECTED, a pending pairing is started
  with `bt_conn_set_security`, and the remote features are read. Page 1
  is read when page 0 has the extended-features bit.

Role Change and Mode Change events update the object.

`bt_br_set_connectable` and `bt_br_set_discoverable` look at
BT_DEV_PSCAN and BT_DEV_ISCAN and decide which scan enable to write, if
any. `write_scan_enable` sends it with `bt_hci_cmd_send_sync`, which
blocks until the controller answers. Only then does it set the two flags.

### How the CBOR attribute decoder works

`cbor_read_flat_attrs` decodes a CBOR map into C variables that a table of
`cbor_attr_t` describes: an attribute's name, type, target address,
default and buffer size. `cbor_internal_read_object` first stores the
defaults. It then walks the map with one tinycbor iterator: it reads a
text key into `attrbuf`, steps to the value, and finds the first attribute
of that name whose type accepts the value. It reads scalars and strings in
place. It hands arrays to `cbor_read_array` and nested maps to itself. An
array of structures reads each element as an object whose attribute
addresses are offsets into the element.

## Modules

| Module | What it is |
|--------|------------|
| `PbAdvSeg` | Pure operators for the segmentation arithmetic. `last_seg` (pb_adv.c:150), the payload lengths `SendSegments`/`ContLens` that the loop of `prov_send_adv` builds (690-721), the -E2BIG test `TooBig`, and the length checks of `gen_prov_start` and `gen_prov_cont`. `SpecSegCount` is the reference: the segment-count formula of the specification. |
| `PbAdvSegSweep` | One state per PDU length 1..MaxLen. RoundTrip checks the `last_seg` that the receiver is told against the frames `prov_send_adv` builds. |
| `PbAdv` | Two nodes running the bearer over a lossy radio. Each node's `pb_link` is a record. Each C function is an operator from record to record, and a handler is the composition of the functions it calls, in code order. |
| `MCPbAdv` | Model values for the two nodes and two UUIDs, for TLC. |
| `KeysBr` | The link-key pool and its flash records, for both builds of CONFIG_BT_KEYS_OVERWRITE_OLDEST, across reboots. |
| `MCKeysBr` | Three addresses and BT_ADDR_ANY as model values. |
| `BrDiscovery` | br.c's discovery statics and `rnr_cb` against an HCI controller that reports devices, ends inquiries and answers name requests over an in-order event stream. |
| `MCBrDiscovery` | Two remote addresses, the zero address, and two RSSI values. |
| `BrConn` | br.c's connection handlers and the scan-enable API, against a controller with a state per peer. conn.c's `bt_conn` is a record per peer. Application threads block in `bt_hci_cmd_send_sync`. |
| `MCBrConn` | Two peers, two caller threads and the freed-object value as model values. |
| `ScanEnable` | The abstract scan-enable API: each call atomic and decided on the controller's scan enable. BrConn refines it. |
| `Cborattr` | cborattr.c as pure, mutually RECURSIVE operators: `cbor_internal_read_object`/`ReadPairs` (the key/value loop), `cbor_read_array`/`ReadElements`, and their helpers, over abstract CBOR items. |
| `MCCborattr` | An attribute table with one attribute of each kind, a bounded set of input maps, one step `ReadFlatAttrs`, and the reference decoder the properties compare against. |

### State and actions of PbAdv

`node[n]` holds the following fields of n's `pb_link`:

- `id`, `flags` and `cb`;
- `rx`: `id`, `seg`, `lastSeg`, the FCS as `fcs`, and `len`. `buf` is rx_buf
  as three segment slots;
- `tx`: `id`, `pendingAck`, `bufs`, the completion `cb`, and `elapsed`.
  `elapsed` counts retransmit periods since `tx.start`.

It also holds:

- `advq`: the advertiser queue, with the send callbacks of each buffer;
- `retransmit` and `protTimer`: whether each delayable work item is armed;
- `up`: what the bearer reported to prov.c. This is ghost state: the PDUs
  sent, delivered and completed, and whether `error` ran;
- `badFcs`: a ghost flag, set when the FCS check fails.

A PDU is a record `[src, k, len]`. Its identity stands for its bytes, so
for its FCS. A Start frame carries the PDU's identity as its FCS, and every
frame carries it as its data. Reassembly is correct exactly when all the
slots it filled hold the same PDU.

`chan[n]` holds the frames n advertised that the peer has not yet scanned.
A receiver processes one sender's frames in the order they were sent, so
each direction is a FIFO. A frame may be lost (`Lose`). A frame is also
dropped when MaxInFlight of the sender's frames are still unscanned.
Duplicates come from the protocol's own retransmissions.

| Action | Code |
|--------|------|
| `ProvOpen` | `prov_link_open`, with a fresh link ID for `bt_rand` |
| `DevAccept` | `prov_link_accept` |
| `Send(n)` | `prov_send_adv`; allocation of buffer k may fail |
| `Close(n)` | `prov_link_close(SUCCESS)` called by prov.c |
| `ClearTx(n)` | `prov_clear_tx` called by prov.c |
| `Receive(n)` | `bt_mesh_pb_adv_recv` and `gen_prov_recv`, dispatching to `gen_prov_start`, `gen_prov_cont`, `gen_prov_ack` and `gen_prov_ctl` (`link_open`, `link_ack`, `link_close`) |
| `Transmit(n)` | The advertiser sends the head of `advq` and runs its callbacks: `buf_sent` for Link Ack/Close, `ack_complete` for a first Transaction Ack |
| `RetransmitTimer(n)` | `prov_retransmit` |
| `ProtocolTimer(n)` | `protocol_timeout` |
| `Lose(n)` | The radio loses a frame |

Every allocation (`adv_buf_create`) fails when the node's pool of
AdvBufCount buffers is held by its queue and its tx buffers. Up to
MaxAllocFails further failures model other users holding the pool past
BUF_TIMEOUT.

prov.c is the environment. It opens or accepts a link. On each link it
sends its k-th PDU once it has received the peer's k-th (the provisioner:
the (k-1)-th). This is the request/response pattern of provisioning. It
may also cancel the transaction (`clear_tx`) or close the link.

### Timing abstraction

The retransmit period is the unit of time. The transaction gives up when
`tx.elapsed` reaches XactTimeout. PROTOCOL_TIMEOUT (60 s) is rescheduled
at every send, and a transaction is abandoned TRANSACTION_TIMEOUT (30 s)
after it starts. So `ProtocolTimer` is enabled only while the node's
retransmit work is not armed. Otherwise the protocol timer may expire at
any moment, relative to reception and to the peer.

### Fairness of PbAdv

`Transmit`, `RetransmitTimer` and `ProtocolTimer` of each node are weakly
fair. The advertiser thread and the system work queue run whenever they
have work. Reception, loss and prov.c get no fairness, since the radio may
lose everything and the upper layer may stop. LinkReleased therefore rests
on the timers alone.

### State and actions of KeysBr

`keys` is a record of the code's state:

- `key_pool`: one record per slot (`addr`, `key_type`, `flags`,
  `aging_counter`), with BT_ADDR_ANY for a free slot;
- `aging_counter_val` and `last_keys_updated` (a slot index, 0 for NULL);
- `settings`: the flash records, from address to `[len, storage]`.

Each C function is an operator from `keys` to `keys`. The other variables
are:

- `OVERWRITE_OLDEST`: the build, chosen once in Init, so one run covers
  both builds;
- `loading`: the records settings_load has not yet handed over;
- `boots`: the number of reboots so far;
- `recency`: a ghost list of the bonded addresses, least recently used
  first;
- `evicted`: a ghost, the address the last step evicted;
- `fault`: a ghost flag, set when link_key_set would write through NULL.

Initial flash may hold up to MaxBadRecords records of the wrong length,
the kind a firmware with another storage layout leaves behind.

| Action | Code |
|--------|------|
| `SetBondInfo(addr, type)` | `bt_br_set_bond_info` |
| `UpdateUsage(addr)` | `bt_keys_link_key_update_usage` (OVERWRITE_OLDEST build only) |
| `Unpair(addr)` | `bt_br_unpair` with an address or NULL |
| `Reboot` | Power loss: RAM is reset, flash is kept, loading starts |
| `LinkKeySet(addr)` | `link_key_set` for one record, in any order |

Pairing, use and unpairing wait until loading is over, as the host
starts using keys only after `settings_load`. Uses and pairings are
bounded by `aging_counter_val < MaxCounter`. The spec has no fairness:
its properties are all safety.

### State and actions of BrDiscovery

`host` holds br.c's statics and the BT_DEV_INQUIRY flag:

- `discovery_cb`: whether it is set or NULL;
- `results`, `size` and `count`: the result array,
  `discovery_results_size` and `discovery_results_count`;
- `rnr`: `rnr_cb`.

A result is `[addr, rssi, eir, resolving, updated]`. The EIR is
abstracted to two facts: whether `eir_has_name` finds a name, and whether
a name can be appended. The array belongs to the application, so it
keeps its contents after `bt_br_discovery_reset`.

The controller `ctl` holds whether it is inquiring, the name requests it
has accepted, and the reports of this inquiry. `evq` is the HCI event
stream, in order. A command the controller cannot take fails: HCI Inquiry
while it inquires, Inquiry Cancel when it does not. Up to MaxCmdFails
other commands fail (no buffer, busy).

The ghost `session` is "running" from a successful start until the
application is told of completion or stops discovery. The ghost `misuse`
records a call of `discovery_cb` outside a session.

| Action | Code |
|--------|------|
| `Start(cnt)` | `bt_br_discovery_start` with `br_start_inquiry` |
| `Stop` | `bt_br_discovery_stop` |
| `RemoteNameRequest(addr)` | `bt_br_remote_name_request` with `request_name` |
| `CtlReport` | The controller reports a device (with or without EIR) |
| `CtlInquiryComplete` | The inquiry's time runs out |
| `CtlRemoteName(a)` | A name request ends: a name, an empty name, or an error |
| `HandleEvent` | The host handles the oldest event with `bt_hci_inquiry_result_with_rssi`, `bt_hci_extended_inquiry_result`, `bt_hci_inquiry_complete` (each `request_name` in it may fail) or `bt_hci_remote_name_request_complete` |

**Fairness.** The controller ends every inquiry and answers every name
request in finite time. The host's RX thread handles every event. So
CtlInquiryComplete, CtlRemoteName(a) and the consumption of an event are
weakly fair. The last is stated on `evq` alone (`EventConsumed`). It is
equivalent to weak fairness of HandleEvent, since only HandleEvent takes
an event off the stream and it is enabled whenever one waits. Stating it
this way spares TLC from evaluating the handlers for enabledness, which
made the run 70 times slower. The application gets no fairness.

### State and actions of BrConn

- `conns[p]`: the ACL `bt_conn` to peer p, or NoConn. The record keeps
  `state`, `role`, `encrypt`, `sec_level`, `required_sec_level`, the kind
  of link key, BT_CONN_BR_PAIRING_CONN_PEND (`pend`) with
  `attempt_sec_level`, the two feature pages and the mode. The ghosts
  `pairing` and `completed` record what became of a pending pairing and
  whether Connection Complete was handled.
- `scos[p]`: the SCO object's state.
- `link[p]`: the controller's state of the peer. This is the request,
  accept or page in progress, or an up link with its encryption key size,
  the feature reads outstanding and the SCO link.
- `flags`: BT_DEV_ISCAN and BT_DEV_PSCAN. `scan`: the controller's scan
  enable.
- `callers[c]`: each application thread. It is idle, blocked in
  `bt_hci_cmd_send_sync`, or woken with the command's result. `cmdq` is
  the controller's command FIFO.
- `fails`: HCI commands that have failed, at most MaxCmdFails.

conn.c is not in this repository. The model takes these effects of it:
- `bt_conn_add_br`/`add_sco` allocate from pools of MaxAcl/MaxSco.
- Setting DISCONNECTED on an object nobody else holds frees it.
- `bt_conn_lookup_handle` finds CONNECTED objects only.
- `bt_conn_create_br` and `bt_conn_set_security` on a connecting link
  are the environment actions CreateConn and SetSecurityPending.

HCI events are handled one at a time, as the controller produces them.

| Action | Code |
|--------|------|
| `ConnRequest(p)` | `bt_hci_conn_req` for ACL, with `bt_accept_conn`/`bt_reject_conn` |
| `ScoRequest(p)` | `bt_esco_conn_req` with `bt_accept_sco_conn` |
| `SyncConnComplete(p)` | `bt_hci_synchronous_conn_complete` |
| `ConnComplete(p)` | `bt_hci_conn_complete` with `bt_br_update_sec_level`, `br_sufficient_key_size`, `bt_conn_set_security` and the Read Remote Features command |
| `RemoteFeaturesComplete(p)` | `bt_hci_read_remote_features_complete` |
| `RemoteExtFeaturesComplete(p)` | `bt_hci_read_remote_ext_features_complete` |
| `RoleChange(p)` | `bt_hci_role_change` |
| `ModeChange(p)` | `bt_hci_link_mode_change` |
| `Disconnect(p)` | Disconnection Complete (hci_core.c), from either side |
| `CreateConn(p)`, `SetSecurityPending(p)` | conn.c, as the environment |
| `CallScan(c)` | `bt_br_set_connectable`/`bt_br_set_discoverable` up to the blocking `bt_hci_cmd_send_sync` of `write_scan_enable` |
| `ExecScan` | The controller executes the oldest Write Scan Enable |
| `ResumeScan(c)` | The rest of `write_scan_enable`: the flags are set when the command succeeded |

No fairness is assumed. BrConn's properties are safety properties and a
refinement of a specification without fairness.

### State and operators of Cborattr

A CBOR item is a record tagged with its major type. A map's items are its
keys and values in stream order, and a tinycbor iterator is an index into
them. Advancing skips one whole item. A nested read that returns no error
has left its container, which moves the caller's iterator past it. This is
why the Array and Object cases may `continue` without advancing.

Memory is a function from addresses to contents. A text string's content
is `[s, len, nul]`, so a missing terminator is visible. A strings store
also keeps a ghost cell, the set of copies made into it with their
offsets. Each decode operator threads a record `[err, mem]`.
`err = cbor_value_advance(...)` replaces `err`; every other step ORs into
it.

tinycbor is not in this repository. It is modelled at its interface:

- `CopyString`: the string is copied only if it fits, the NUL only if a
  byte is left over, and `*buflen` becomes the string's length;
- `GetScalar`: `get_uint64` of a negative integer yields its magnitude;
- `Misread`: a read that `cbor_assert` guards, on an item of another type,
  stops the program when CONFIG_ASSERT is set and stores garbage when it
  is not.

`MCCborattr` takes the build as a variable chosen in Init, so one run
covers both. Its only action, `ReadFlatAttrs`, is the caller handing one
buffer to `cbor_read_flat_attrs`. The run stops after it, so deadlock
checking is off.

The reference decoder `RefDecode` is written over the pairs as a whole,
not as an iterator walk:

- the last text-keyed pair that names an attribute and has its type sets
  the attribute;
- otherwise the attribute keeps its default, or the caller's value under
  nodefault;
- it fails on an overlong name, a string that does not fit with its NUL,
  an array longer than `maxlen`, a wrongly typed element, or a negative
  unsigned value.

## Runs

| Run | Config | Expect | What it shows |
|-----|--------|--------|---------------|
| seg_roundtrip | `PbAdvSegSweep_roundtrip.cfg` | violation | At 43 bytes, `last_seg` announces 3 segments but only 2 are built |
| link_safety | `MCPbAdv.cfg` | pass | Described below |
| link_release | `MCPbAdv_live.cfg` | pass | Without allocation failures, every ACTIVE link is eventually released |
| stale_bitmap_fcs | `MCPbAdv_stale.cfg` | violation | The device's stale `rx.seg` makes the next link's first PDU fail its FCS; the same bitmap can also make an honest Start trip the missing-segment check |
| keys_store | `MCKeysBr.cfg` | pass | Described below |
| br_discovery | `MCBrDiscovery.cfg` | pass | The result array stays in bounds, and every discovery started is completed or stopped |
| br_double_complete | `MCBrDiscovery_late.cfg` | violation | A name the application requests during the inquiry ends discovery early; Inquiry Complete then calls `discovery_cb(NULL, 0)` again |
| br_name_never_answered | `MCBrDiscovery_rnr.cfg` | violation | A reused slot keeps the old device's `resolving` flag; a name request for the new device returns 0, is never sent, and `rnr_cb` stays busy for ever |
| br_conn | `MCBrConn.cfg` | pass | Described below |
| br_scan_race | `MCBrConn_race.cfg` | violation | Two threads call the scan API. The flags end up saying page scan is on while the controller has it off, and `bt_br_set_connectable(true)` then returns -EALREADY for ever |
| cbor_decode | `MCCborattr.cfg` | pass | Described below |
| cbor_strings_overflow | `MCCborattr_tags.cfg` | violation | A string that exactly fills the strings store is left without its NUL, and the next one is copied past the store's end (the room, a size_t, has wrapped), with the decode returning 0 |

More configurations reproduce behaviours that the code has. No passing
run can hold them. They are kept beside the runs and listed as hazards in
PROJECT.json:

- `MCPbAdv_release.cfg` violates LinkReleased with one failed Link Close
  allocation. CLOSING is already set, so the protocol timer's own
  `prov_link_close` returns early and the link stays ACTIVE for ever. The
  comment at pb_adv.c:893 says the link will time out.
- `MCBrConn_race.cfg`, the br_scan_race run, with ScanRefinement in place
  of ScanFlagsMatchController: it fails the same way in 8 steps. A
  `set_discoverable` decided on a stale BT_DEV_PSCAN turns inquiry scan on
  after the other thread has turned page scan off.
- `MCBrConn_pairing.cfg` violates PairingAnswered. A link comes up
  encrypted with a 6-byte key while a pairing is pending.
  `bt_br_update_sec_level` refuses it and `bt_hci_conn_complete` returns
  with BT_CONN_BR_PAIRING_CONN_PEND still set and no
  `bt_conn_security_changed`. The two other failure paths of the same
  function do report.
- `MCPbAdv_completion.cfg` violates CompletionOnce. When the pool is
  exhausted at close, each duplicate ack reruns the completion callback.
- `MCKeysBr_lru_reboot.cfg` violates EvictsLeastRecentlyUsed. After a
  reboot, `last_keys_updated` is the last key loaded, so its next use is
  not stamped and it is evicted as the oldest.
- `MCCborattr_oom.cfg` violates AgreesWithReference. A byte string too
  long for its buffer returns 0, because `err = cbor_value_advance`
  replaces the OutOfMemory, and the length is set past the buffer.
- `MCCborattr_keys.cfg` violates AgreesWithReference. An integer key is
  taken as the value, so what follows is read out of step.
- `MCCborattr_empty.cfg` violates AgreesWithReference. An empty array
  reads a missing element: an assertion fails, or the count is 1 with
  AdvancePastEOF.
- `MCCborattr_nul.cfg` violates AgreesWithReference. A text string as
  long as its buffer is stored without a NUL.
- `MCCborattr_unsigned.cfg` violates AgreesWithReference. A negative
  value for an unsigned attribute is stored as its magnitude, or trips an
  assertion.

- `MCPbAdv_ackdelivered.cfg` violates AckImpliesDelivered. After
  `protocol_timeout` zeroed `rx.seg`, an ack is sent for a PDU that was
  never delivered.
- `MCBrDiscovery_rssi.cfg` violates NameEventKeepsResults. Since
  `rssi == 0xff` is never true for an int8_t, a failed name request for an
  unknown device replaces a device the inquiry found.
- `MCBrDiscovery_fail.cfg` violates DiscoveryCompletes with one failing
  HCI command. `bt_br_remote_name_request` leaves `resolving` set when
  `request_name` fails, and after Inquiry Complete nothing asks for that
  name again.

The link_safety run checks TypeOK plus three properties:

- DeliveredInOrder: no PDU is delivered twice or out of order;
- CompletionOnce: no send completes twice;
- NoSpuriousFailure: no protocol error is reported between honest peers.

It uses one link and 3-segment PDUs.

The keys_store run checks TypeOK plus four properties, in both builds,
across two reboots:

- PoolMatchesStore: once loading is over, RAM and flash hold the same
  keys, one slot per address, with the same type, flags and counter;
- CounterAhead: no slot's aging counter is ahead of `aging_counter_val`;
- LoadNeverDerefsNull: the build without OVERWRITE_OLDEST never loads a
  good record into a full pool;
- EvictsLeastRecentlyUsedBeforeReboot: before the first reboot, every
  eviction drops the least recently used key. After a reboot this fails
  (`MCKeysBr_lru_reboot.cfg`).

The br_discovery run checks TypeOK and DiscoveryCompletes for arrays of
one or two results, with every HCI command accepted. DiscoveryCompletes
holds there despite the two findings of BrDiscovery, for two reasons:

- the early completion ends the session;
- the `resolving` flag that a reused slot inherits stays on a device that
  already has a name, which `report_discovery_results` ignores.

With one failing command it does not hold (`MCBrDiscovery_fail.cfg`).

The br_conn run checks TypeOK (with the pool bounds) plus three
properties, with one scan API caller and one failing HCI command:

- ScanFlagsMatchController: whenever no scan call is in progress,
  BT_DEV_ISCAN/PSCAN equal the controller's scan enable;
- SecureWhenConnected: a link that comes up encrypted is CONNECTED only
  at its required level and with a key at least 7 bytes long (16 at L4).
  An unencrypted link is connected at L1 by design, and its security is
  raised later;
- ScanRefinement: the controller's scan enable refines ScanEnable under
  the mapping `enabled <- scan`.

The cbor_decode run checks three properties on every input, in both
builds:

- TypeOK, which includes that every array count is within 0..maxlen;
- AgreesWithReference: the decoder returns 0 exactly when the reference
  succeeds, and then leaves exactly the reference's memory;
- StringsWithinStore: every string copied into the strings store lies
  inside it, NUL included.

The inputs are every map of at most two pairs with distinct text keys,
plus an empty buffer and a root that is not a map. The keys cover every
attribute, an unknown name, and a name longer than CBORATTR_MAX_SIZE. The
values cover every type, including mismatches that must be skipped,
arrays of 1 to 3 elements (maxlen 2), and strings of 1 and 3 bytes in a
4-byte strings store. What is left out is what the code gets wrong,
listed above.

### Bounds

- **Nodes, links and sends.** Two nodes; one link ID (two in the
  stale-bitmap runs, so that a link follows a failed one). MaxSends = 1 in
  the passing runs, so one PDU each way; 2 in the stale-bitmap runs, so
  the provisioner can send on a second link.
- **PDU lengths.** 50 bytes in link_safety, giving 3 segments so that every
  segment index and the last-segment length check occur. 30 or 50 bytes in
  the stale-bitmap runs. 10 bytes in the liveness run, which is about
  timers, not segments.
- **Timers.** XactTimeout = 1, so a transaction is sent, retransmitted once
  and then given up.
- **Radio.** MaxInFlight = 1. Together with loss, this lets any frame be
  missed while keeping the state space small.
- **Pool.** AdvBufCount = 6 in the passing runs, which is enough for 3 tx
  buffers, an ack and a control frame, so allocation never fails.
  AdvBufCount = 3 in `MCPbAdv_completion.cfg`, where the pool runs out at
  the Link Close. MaxAllocFails = 1 in `MCPbAdv_release.cfg`.
- **KeysBr.** Three addresses for a pool of CONFIG_BT_MAX_PAIRED = 2
  slots. So a pairing can find the pool full and evict, and an unpaired
  address can come back. There are two key types (one authenticated) and
  both builds. MaxCounter = 5 allows a few pairings and uses. MaxBoots = 2,
  so loading in both orders and a reboot during or after loading occur.
  MaxBadRecords = 1 puts one wrong-length record in flash at start.
- **BrDiscovery.** Two remote addresses and two RSSI values, so a full
  array can replace a weaker device by a stronger one or keep it. The
  pass run has one discovery with arrays of one and two results and two
  reports, at most two events in flight, and no command failure. The
  violation runs use one-slot arrays. br_name_never_answered allows two
  discoveries, since the trace reuses a slot after a restart.
  `MCBrDiscovery_fail.cfg` allows one failure on a two-slot array.
- **BrConn.** Two peers for an ACL pool of one and a SCO pool of one, so
  a request finds the pool full. Key sizes 6 and 7 sit on either side of
  the minimum. Required levels 1 and 3 make the level check pass and fail.
  One command failure is allowed, which can fall on the accept, the
  key-size read, `bt_conn_set_security`, a feature read or a scan write.
  One caller thread is used in the pass run and two in the race
  reproduction. About 320,000 states, in 45 s.
- **Cborattr.** Every kind of attribute once, arrays of maxlen 2, a
  4-byte strings store, 2-byte text and byte buffers, and a name limit of
  4. This reaches a full array and one past it, a full store and one past
  it, and a name at and past the limit. The size_t is 16 bits wide: the
  wrap only needs a value far beyond the store. About 3,000 inputs, 6,000
  states, in seconds.
- **Run time.** Each passing run finishes in under two minutes on two
  workers. br_discovery takes about 50 s for 330,000 states.

### Fault variants

Each property of a passing run has a fault variant of the code it is
about, defined just before the operator it replaces:

| Property | Fault variant |
|----------|---------------|
| TypeOK | `prov_retransmit_late`: gives up one period late |
| DeliveredInOrder | `gen_prov_start_nodup`: no duplicate check of a completed transaction |
| CompletionOnce | `gen_prov_ack_keep`: never retires the transaction |
| NoSpuriousFailure | `gen_prov_start_msb`: `>=` for `>` in the missing-segment check |
| LinkReleased | `buf_sent_noclose`: clears CLOSING without closing |
| TypeOK (KeysBr) | `bt_keys_link_key_clear_addr_past`: the loop runs one slot past the pool |
| PoolMatchesStore | `bt_keys_get_link_key_noclear`: evicts without deleting the flash record |
| CounterAhead | `link_key_set_nomax`: a restored counter does not raise `aging_counter_val` |
| LoadNeverDerefsNull | `bt_keys_link_key_clear_nodelete`: unpairing keeps the flash record |
| EvictsLeastRecentlyUsedBeforeReboot | `bt_keys_link_key_update_usage_noinc`: a use is stamped without `++` |
| TypeOK (BrDiscovery) | `get_result_slot_past`: a new slot is taken while `count <= size` |
| DiscoveryCompletes | `bt_hci_remote_name_request_complete_keep`: the answered result stays `resolving` |
| TypeOK (Cborattr) | `ReadElements_le`: the element loop runs while `off <= maxlen` |
| AgreesWithReference | `MatchAttr_anytype`: attributes match by name without `valid_attr_type` |
| TypeOK (BrConn) | `LinkModeChange_anymode`: hold mode is recorded too |
| ScanFlagsMatchController | `ResumeScan_anyerr`: the flags are set even when the command failed |
| SecureWhenConnected | `br_sufficient_key_size_anysize`: any key size is accepted, as before the KNOB fix |
| ScanRefinement | `set_discoverable_noperm`: no -EPERM when the device is not connectable |
| StringsWithinStore | `StoreLeft_whole`: the room left is `storelen`, without subtracting what is used |

TLC finds each property violated with its variant in place.

## Not modelled yet, and the plan

1. **PbAdvRx.** A peer that sends malformed frames: Continuation indices
   beyond `last_seg` after a lost Start, index 0, and a single-segment
   Start that declares more than 20 bytes. This targets the unchecked
   memcpy at pb_adv.c:386.
2. **Split retransmit.** `prov_retransmit` as two steps, started and
   finished, so that `prov_clear_tx` and `reset_adv_link` can run in
   between. This targets the false comment at pb_adv.c:188-191.
3. **Abstract link specification.** Reliable, in-order, at-most-once PDU
   delivery per link, and PbAdv shown to refine it under a mapping of `up`.
   The known findings limit this to configurations that avoid them.
4. **Allocation failures in the safety runs** (MaxAllocFails > 0), and a
   two-link passing run.
5. **pb_adv_reset and the buf_start error path** of pb_adv.c.
6. **BrDiscovery refinements.** Several reports per Inquiry Result event
   (`num_reports`), and the Remote Name Cancel commands of
   `bt_br_discovery_stop` with the controller's answers to them.
7. **KeysBr.** The aging counter's uint32_t wrap (needs 2^32 uses, so only
   as an abstraction that starts the counter near the top).
8. **cborattr.c.** Still missing:
   - attributes named CBORATTR_ATTR_UNNAMED, since the macro is defined
     in cborattr.h, which is not in this repository;
   - the half, single and double float types apart;
   - byte strings inside arrays of structures, whose length pointer is
     taken from the offset union;
   - the inverted CONFIG_MGMT_CBORATTR_FLOAT_SUPPORT test (lines 18-22).
     It is kept as written, but nothing in the repository says what the
     option means.

9. **BrConn.** `bt_br_init` and its helpers, with their early returns.
   Also the aftermath of a disconnection asked for while still
   CONNECTING, which depends on conn.c.

Out of scope: formatting, HCI command encoding, drivers, board tables and
headers (see PROJECT.json).
