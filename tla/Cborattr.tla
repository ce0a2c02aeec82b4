------------------------------ MODULE Cborattr ------------------------------
(***************************************************************************)
(* The mcumgr CBOR attribute decoder (cborattr.c) as pure operators.       *)
(*                                                                         *)
(* A CBOR data item is a record tagged by its major type t:                *)
(*   [t |-> "int", v]  [t |-> "bool", v]  [t |-> "null"]  [t |-> "float", v]*)
(*   [t |-> "text", s, len]  [t |-> "bytes", s, len]                       *)
(*   [t |-> "array", items]  [t |-> "map", items]                          *)
(* where a map's items are its keys and values in stream order.  A tinycbor *)
(* iterator over a container is the index of its current item; advancing  *)
(* skips one whole item, nested containers included.                       *)
(*                                                                         *)
(* An attribute (struct cbor_attr_t) is a record with the fields attribute,*)
(* type, nodefault, dflt, addr and, by type, len (buffer size), lenaddr    *)
(* (where a byte string's length goes), arr (a cbor_array_t) or obj (the   *)
(* nested attribute table).  Memory is a function from addresses (Cells)   *)
(* to contents; a strings store records the copies made into it.           *)
(*                                                                         *)
(* The decode threads a record [err, mem]: err is the set of CborError     *)
(* flags OR-ed so far.  "Abort" is a failed cbor_assert in a build with    *)
(* CONFIG_ASSERT, which stops the program; "Undefined" is a copy from a    *)
(* non-string in a build without it, whose outcome the model leaves open   *)
(* by stopping there.                                                      *)
(***************************************************************************)
EXTENDS Integers, Sequences, FiniteSets, FiniteSetsExt

CONSTANTS
    CBORATTR_MAX_SIZE,   \* size of attrbuf: the longest attribute name read
    CONFIG_MGMT_CBORATTR_FLOAT_SUPPORT,
    CONFIG_ASSERT,       \* cbor_assert is checked (TRUE) or compiled out
    SizeBits,            \* width of size_t
    NULL,                \* the null pointer (no target address)
    NoName,              \* attrbuf after a key that is not a text string
    Garbage              \* what a read of a wrongly typed item stores

ASSUME CBORATTR_MAX_SIZE \in Nat /\ SizeBits \in Nat \ {0}
ASSUME CONFIG_MGMT_CBORATTR_FLOAT_SUPPORT \in BOOLEAN /\ CONFIG_ASSERT \in BOOLEAN

\* cborattr.c lines 18-22: the float cases are compiled in when the Kconfig
\* option is NOT set.
CBORATTR_FLOAT_SUPPORT == ~CONFIG_MGMT_CBORATTR_FLOAT_SUPPORT

\* An unsigned C value of type size_t.
SizeT(x) == x % (2 ^ SizeBits)

\* The iterator past the end of a container: cbor_value_is_valid is false.
Invalid == [t |-> "invalid"]

At(items, i) == IF i <= Len(items) THEN items[i] ELSE Invalid

AddErr(s, e) == [s EXCEPT !.err = @ \cup {e}]

\* The decode stopped: an assertion failed, or the build without assertions
\* went on where the outcome is not defined by the code (the model stops).
Aborted(s) == s.err \cap {"Abort", "Undefined"} # {}

\* A read that tinycbor guards with cbor_assert finds an item of another
\* type: the program stops, or the read goes ahead on whatever is there.
Misread(s, lptr) ==
    IF CONFIG_ASSERT THEN AddErr(s, "Abort")
    ELSE [s EXCEPT !.mem[lptr] = Garbage]

\* cbor_value_get_int64 / get_uint64 / get_boolean / get_double on an item
\* of type ct: get_uint64 of a negative integer -1-n yields n.
GetScalar(s, lptr, item, ct, unsigned) ==
    IF item.t # ct THEN Misread(s, lptr)
    ELSE IF unsigned /\ item.v < 0 THEN
        IF CONFIG_ASSERT THEN AddErr(s, "Abort")
        ELSE [s EXCEPT !.mem[lptr] = -1 - item.v]
    ELSE [s EXCEPT !.mem[lptr] = item.v]

\* cbor_value_copy_text_string / copy_byte_string of item into a buffer of
\* buflen bytes: the string is copied only if it fits, the NUL only if there
\* is a byte left for it, and *buflen is set to the string's length.
CopyString(item, buflen) ==
    [ok |-> item.len <= buflen, nul |-> item.len < buflen, len |-> item.len]

valid_attr_type(ct, at) ==
    \/ at \in {"Integer", "UnsignedInteger"} /\ ct = "int"
    \/ <<at, ct>> \in {<<"ByteString", "bytes">>, <<"TextString", "text">>,
                       <<"Boolean", "bool">>, <<"Array", "array">>,
                       <<"Object", "map">>, <<"Null", "null">>}
    \/ CBORATTR_FLOAT_SUPPORT /\ at = "Double" /\ ct = "float"

cbor_target_address(cursor, parent, offset) ==
    IF parent = NULL \/ parent.element_type # "StructObject"
    THEN IF cursor.type \in {"Integer", "UnsignedInteger", "ByteString",
                             "TextString", "Boolean"}
            \/ (CBORATTR_FLOAT_SUPPORT /\ cursor.type = "Double")
         THEN cursor.addr ELSE NULL
    ELSE <<parent.store, offset, cursor.addr>>

\* Lines 159-191: every attribute without nodefault whose type has a
\* default gets it; an address named twice keeps the later attribute's.
StuffDefaults(attrs, parent, offset, mem) ==
    LET dflts == {"Integer", "UnsignedInteger", "Boolean"}
                 \cup IF CBORATTR_FLOAT_SUPPORT THEN {"Double"} ELSE {}
        D == {k \in 1..Len(attrs) :
                /\ ~attrs[k].nodefault
                /\ attrs[k].type \in dflts
                /\ cbor_target_address(attrs[k], parent, offset) # NULL}
        Writers(c) == {k \in D : cbor_target_address(attrs[k], parent, offset) = c}
    IN  [c \in DOMAIN mem |->
            IF Writers(c) = {} THEN mem[c] ELSE attrs[Max(Writers(c))].dflt]

\* A mutant of MatchAttr: the type check of valid_attr_type left out.
MatchAttr_anytype(attrs, name, ct) ==
    LET ks == {k \in 1..Len(attrs) : name # NoName /\ attrs[k].attribute = name}
    IN  IF ks = {} THEN 0 ELSE Min(ks)

\* Lines 227-242: the first attribute whose type accepts ct and whose name
\* equals the key read into attrbuf, or 0.  A key that is not a text string
\* leaves attrbuf[0] = '\0' and matches no named attribute.
MatchAttr(attrs, name, ct) ==
    LET ks == {k \in 1..Len(attrs) :
                  valid_attr_type(ct, attrs[k].type) /\ name # NoName
                  /\ attrs[k].attribute = name}
    IN  IF ks = {} THEN 0 ELSE Min(ks)

\* Lines 244-282: read the scalar or string value under cur_value into the
\* matched attribute.
ReadValue(cursor, val, parent, offset, s) ==
    LET lptr == cbor_target_address(cursor, parent, offset)
        c    == CopyString(val, cursor.len)
    IN  CASE cursor.type = "Null" -> s
          [] cursor.type = "Boolean" -> GetScalar(s, lptr, val, "bool", FALSE)
          [] cursor.type = "Integer" -> GetScalar(s, lptr, val, "int", FALSE)
          [] cursor.type = "UnsignedInteger" -> GetScalar(s, lptr, val, "int", TRUE)
          [] cursor.type = "Double" -> GetScalar(s, lptr, val, "float", FALSE)
          [] cursor.type = "ByteString" ->
                [err |-> s.err \cup IF c.ok THEN {} ELSE {"OutOfMemory"},
                 mem |-> [s.mem EXCEPT ![lptr] = IF c.ok THEN [s |-> val.s, len |-> val.len]
                                                        ELSE @,
                                       ![cursor.lenaddr] = c.len]]
          [] cursor.type = "TextString" ->
                [err |-> s.err \cup IF c.ok THEN {} ELSE {"OutOfMemory"},
                 mem |-> [s.mem EXCEPT ![lptr] = IF c.ok THEN [s |-> val.s, len |-> val.len,
                                                               nul |-> c.nul]
                                                        ELSE @]]

-----------------------------------------------------------------------------
(* The recursive decode.  cbor_internal_read_object and cbor_read_array    *)
(* call each other through the Array, Object and StructObject cases; a     *)
(* nested read that returns no error has left its container, which        *)
(* advances the caller's iterator past it.                                 *)

RECURSIVE cbor_internal_read_object(_, _, _, _, _), ReadPairs(_, _, _, _, _, _),
          cbor_read_array(_, _, _), ReadElements(_, _, _)

cbor_internal_read_object(root, attrs, parent, offset, mem) ==
    LET s0 == [err |-> {}, mem |-> StuffDefaults(attrs, parent, offset, mem)]
    IN  IF root.t # "map" THEN AddErr(s0, "IllegalType")
        ELSE ReadPairs(root.items, 1, attrs, parent, offset, s0)

\* Lines 201-299, the loop over the map with cur_value at items[i].  A text
\* key is followed by an advance to its value; any other key is itself taken
\* as the value.  After a scalar or string, err = cbor_value_advance(...)
\* replaces the error; Array and Object `continue` and keep it.
ReadPairs(items, i, attrs, parent, offset, s) ==
    IF i > Len(items) \/ s.err # {} THEN s
    ELSE
    LET key  == items[i]
        text == key.t = "text"
        vi   == IF text THEN i + 1 ELSE i
        val  == At(items, vi)
        k    == MatchAttr(attrs, IF text THEN key.s ELSE NoName, val.t)
        cur  == attrs[k]
    IN  CASE text /\ key.len > CBORATTR_MAX_SIZE -> AddErr(s, "DataTooLarge")
          [] val = Invalid -> AddErr(s, "IllegalType")
          [] k = 0 -> ReadPairs(items, vi + 1, attrs, parent, offset, s)
          [] cur.type \in {"Array", "Object"} ->
                LET r == IF cur.type = "Array" THEN cbor_read_array(val, cur.arr, s.mem)
                         ELSE cbor_internal_read_object(val, cur.obj, NULL, 0, s.mem)
                IN  ReadPairs(items, IF r.err = {} THEN vi + 1 ELSE vi,
                              attrs, parent, offset, r)
          [] OTHER ->
                LET r == ReadValue(cur, val, parent, offset, s)
                IN  IF Aborted(r) THEN r
                    ELSE ReadPairs(items, vi + 1, attrs, parent, offset,
                                   [r EXCEPT !.err = {}])

\* Lines 313-373.  value is an array item (valid_attr_type let it through).
cbor_read_array(value, arr, mem) ==
    LET s == ReadElements(value.items, arr,
                          [err |-> {}, mem |-> mem, j |-> 1, off |-> 0,
                           arrcount |-> 0, tp |-> 0])
        m == IF arr.count # NULL /\ ~Aborted(s)
             THEN [s.mem EXCEPT ![arr.count] = s.arrcount] ELSE s.mem
    IN  [err |-> s.err \cup IF s.j <= Len(value.items) /\ ~Aborted(s)
                            THEN {"DataTooLarge"} ELSE {},
         mem |-> m]

\* A mutant of StoreLeft: the room left computed without the bytes used.
StoreLeft_whole(arr, tp) == SizeT(arr.storelen)

\* Line 345: the room left in a strings store once tp bytes are used.
StoreLeft(arr, tp) == SizeT(arr.storelen - tp)

\* One element read into the array's store at off (lines 320-356).
ReadElement(items, arr, s) ==
    LET e    == At(items, s.j)
        lptr == <<arr.store, s.off>>
        et   == arr.element_type
    IN  CASE et = "Boolean" -> GetScalar(s, lptr, e, "bool", FALSE)
          [] et = "Integer" -> GetScalar(s, lptr, e, "int", FALSE)
          [] et = "UnsignedInteger" -> GetScalar(s, lptr, e, "int", TRUE)
          [] et = "Double" /\ CBORATTR_FLOAT_SUPPORT -> GetScalar(s, lptr, e, "float", FALSE)
          [] et = "TextString" ->
                LET len == StoreLeft(arr, s.tp)
                    c   == CopyString(e, len)
                    cps == arr.copies
                IN  IF e.t # "text" THEN AddErr(s, IF CONFIG_ASSERT THEN "Abort" ELSE "Undefined")
                    ELSE [s EXCEPT
                            !.err = @ \cup IF c.ok THEN {} ELSE {"OutOfMemory"},
                            !.mem[lptr] = s.tp,
                            !.mem[cps] = @ \cup IF c.ok THEN {[at |-> s.tp, s |-> e.s,
                                                   len |-> e.len, nul |-> c.nul]} ELSE {},
                            !.tp = s.tp + c.len + 1]
          [] et = "StructObject" ->
                LET r == cbor_internal_read_object(e, arr.subtype, arr, s.off, s.mem)
                IN  [s EXCEPT !.err = @ \cup r.err, !.mem = r.mem,
                              !.j = IF r.err = {} THEN @ + 1 ELSE @]
          [] OTHER -> AddErr(s, "IllegalType")

\* A mutant of ReadElements: the loop runs while off <= maxlen.
ReadElements_le(items, arr, s) ==
    IF s.off > arr.maxlen \/ Aborted(s) THEN s
    ELSE
    LET r  == ReadElement(items, arr, s)
        nv == r.j <= Len(items)
        a  == CASE arr.element_type = "StructObject" -> r
                [] nv -> [r EXCEPT !.j = @ + 1]
                [] CONFIG_ASSERT -> AddErr(r, "Abort")
                [] OTHER -> AddErr(r, "AdvancePastEOF")
        n  == [a EXCEPT !.arrcount = @ + 1, !.off = @ + 1]
    IN  IF Aborted(r) \/ Aborted(a) THEN a
        ELSE IF a.j > Len(items) THEN n
        ELSE ReadElements(items, arr, n)

\* The for loop of lines 319-364: read, count, advance past a non-struct
\* element, and stop after the last one or at maxlen.
ReadElements(items, arr, s) ==
    IF s.off >= arr.maxlen \/ Aborted(s) THEN s
    ELSE
    LET r  == ReadElement(items, arr, s)
        nv == r.j <= Len(items)
        a  == CASE arr.element_type = "StructObject" -> r
                [] nv -> [r EXCEPT !.j = @ + 1]
                [] CONFIG_ASSERT -> AddErr(r, "Abort")
                [] OTHER -> AddErr(r, "AdvancePastEOF")
        n  == [a EXCEPT !.arrcount = @ + 1, !.off = @ + 1]
    IN  IF Aborted(r) \/ Aborted(a) THEN a
        ELSE IF a.j > Len(items) THEN n
        ELSE ReadElements(items, arr, n)

cbor_read_object(value, attrs, mem) ==
    cbor_internal_read_object(value, attrs, NULL, 0, mem)

\* Lines 395-409: data is the buffer as a sequence of items, of which the
\* first is read.  An empty buffer fails cbor_parser_init and returns -1,
\* here the flag "ParserInit".
cbor_read_flat_attrs(data, attrs, mem) ==
    IF data = <<>> THEN [err |-> {"ParserInit"}, mem |-> mem]
    ELSE cbor_read_object(data[1], attrs, mem)
=============================================================================
