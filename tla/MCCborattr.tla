----------------------------- MODULE MCCborattr -----------------------------
(***************************************************************************)
(* cbor_read_flat_attrs run once on every input of a bounded set, against  *)
(* an attribute table that has one attribute of each kind the decoder      *)
(* handles: signed and unsigned integers with and without a default, a     *)
(* float, a text and a byte string, an integer array, a strings array, a   *)
(* nested object and an array of structures.  Both builds, with and        *)
(* without CONFIG_ASSERT, are covered: build is chosen in Init and never   *)
(* changes.                                                                *)
(***************************************************************************)
EXTENDS Integers, Sequences, FiniteSets, FiniteSetsExt, TLC

CONSTANTS
    NULL, NoName, Garbage, Undef,
    MaxSize,        \* CBORATTR_MAX_SIZE
    FloatConfig,    \* CONFIG_MGMT_CBORATTR_FLOAT_SUPPORT
    Bits,           \* width of size_t
    IntVals,        \* integers the input carries
    TextLens,       \* lengths of the text and byte string values
    ArrLens,        \* lengths of the integer and strings arrays
    TagLens,        \* lengths of the strings in the strings array
    NonTextKeys     \* the input may hold a pair whose key is an integer

VARIABLES
    build,   \* CONFIG_ASSERT of this build
    input,   \* the buffer handed to cbor_read_flat_attrs
    mem,     \* the caller's memory that the attribute table points into
    ret,     \* the error flags returned
    done     \* cbor_read_flat_attrs has returned

vars == <<build, input, mem, ret, done>>

C(a) == INSTANCE Cborattr WITH CBORATTR_MAX_SIZE <- MaxSize,
            CONFIG_MGMT_CBORATTR_FLOAT_SUPPORT <- FloatConfig,
            CONFIG_ASSERT <- a, SizeBits <- Bits

-----------------------------------------------------------------------------
(* The attribute table.  Addresses are tuples so that they compare.        *)

IntArr    == [element_type |-> "Integer", maxlen |-> 2, count |-> <<"list_n">>,
              store |-> "list"]
StrArr    == [element_type |-> "TextString", maxlen |-> 2, count |-> <<"tags_n">>,
              store |-> "tags", storelen |-> 4, copies |-> <<"tags.copies">>]
Member    == << [attribute |-> "v", type |-> "Integer", nodefault |-> FALSE,
                 dflt |-> 0, addr |-> <<"v">>],
                [attribute |-> "ok", type |-> "Boolean", nodefault |-> TRUE,
                 dflt |-> FALSE, addr |-> <<"ok">>] >>
StructArr == [element_type |-> "StructObject", maxlen |-> 2, count |-> <<"ents_n">>,
              store |-> "ents", subtype |-> Member]
Hdr       == << [attribute |-> "ok", type |-> "Boolean", nodefault |-> FALSE,
                 dflt |-> FALSE, addr |-> <<"hdr.ok">>] >>

Attrs ==
    << [attribute |-> "id", type |-> "Integer", nodefault |-> FALSE, dflt |-> 7,
        addr |-> <<"id">>],
       [attribute |-> "off", type |-> "UnsignedInteger", nodefault |-> TRUE,
        dflt |-> 0, addr |-> <<"off">>],
       [attribute |-> "f", type |-> "Double", nodefault |-> FALSE, dflt |-> 0,
        addr |-> <<"f">>],
       [attribute |-> "name", type |-> "TextString", nodefault |-> TRUE, len |-> 2,
        addr |-> <<"name">>],
       [attribute |-> "data", type |-> "ByteString", nodefault |-> TRUE, len |-> 2,
        addr |-> <<"data">>, lenaddr |-> <<"data_len">>],
       [attribute |-> "list", type |-> "Array", nodefault |-> TRUE, arr |-> IntArr],
       [attribute |-> "tags", type |-> "Array", nodefault |-> TRUE, arr |-> StrArr],
       [attribute |-> "hdr", type |-> "Object", nodefault |-> TRUE, obj |-> Hdr],
       [attribute |-> "ents", type |-> "Array", nodefault |-> TRUE, arr |-> StructArr] >>

CopiesCell == StrArr.copies

Cells ==
    {<<n>> : n \in {"id", "off", "f", "name", "data", "data_len", "list_n",
                    "tags_n", "ents_n", "hdr.ok"}}
    \cup {<<s, o>> : s \in {"list", "tags"}, o \in 0..1} \cup {CopiesCell}
    \cup {<<"ents", o, f>> : o \in 0..1, f \in {<<"v">>, <<"ok">>}}

InitMem == [c \in Cells |-> IF c = CopiesCell THEN {} ELSE Undef]

-----------------------------------------------------------------------------
(* The inputs: maps of at most two pairs with distinct keys.               *)

IntItem(x) == [t |-> "int", v |-> x]
Bool(b)  == [t |-> "bool", v |-> b]
Txt(l)   == [t |-> "text", s |-> "str", len |-> l]
Bytes(l) == [t |-> "bytes", s |-> "str", len |-> l]
Arr(s)   == [t |-> "array", items |-> s]
Map(s)   == [t |-> "map", items |-> s]
Key(n)   == [t |-> "text", s |-> n, len |-> IF n = "long" THEN MaxSize + 1 ELSE 2]

\* Integers with a negative one, for IntVals <- SignedVals in a cfg.
SignedVals == {-1, 3}

SeqsOf(S, lens) == UNION {[1..n -> S] : n \in lens}

ValuesFor(n) ==
    CASE n = "id"   -> {IntItem(x) : x \in IntVals} \cup {Bool(TRUE)}
      [] n = "off"  -> {IntItem(x) : x \in IntVals}
      [] n = "f"    -> {[t |-> "float", v |-> 1]}
      [] n = "name" -> {Txt(l) : l \in TextLens}
      [] n = "data" -> {Bytes(l) : l \in TextLens}
      [] n = "list" -> {Arr(s) : s \in SeqsOf({IntItem(x) : x \in IntVals}, ArrLens)}
      [] n = "tags" -> {Arr(s) : s \in SeqsOf({Txt(l) : l \in TagLens}, ArrLens)}
      [] n = "hdr"  -> {Map(<<>>), Map(<<Key("ok"), Bool(TRUE)>>), IntItem(1)}
      [] n = "ents" -> {Arr(<<Map(<<Key("v"), IntItem(1)>>)>>),
                        Arr(<<Map(<<Key("ok"), Bool(TRUE)>>), Map(<<>>)>>)}
      [] OTHER      -> {IntItem(1)}

KeyNames == {"id", "off", "f", "name", "data", "list", "tags", "hdr", "ents",
             "zz", "long"}

PairsIn == UNION {{<<Key(n), v>> : v \in ValuesFor(n)} : n \in KeyNames}
           \cup IF NonTextKeys THEN {<<IntItem(0), Key("id")>>, <<IntItem(0), IntItem(1)>>} ELSE {}

Maps == {Map(<<>>)} \cup {Map(p) : p \in PairsIn}
        \cup {Map(p \o q) : p, q \in PairsIn}

\* The buffer: empty, a root that is not a map, or a map.
Inputs == {<<>>, <<IntItem(5)>>} \cup {<<m>> : m \in {x \in Maps : Len(x.items) # 4
                                                   \/ x.items[1] # x.items[3]}}


-----------------------------------------------------------------------------
(* The reference decoder: what a caller of cbor_read_flat_attrs expects.   *)
(* Every pair of the map whose key is a text string naming an attribute    *)
(* and whose value has that attribute's type sets it (the last such pair   *)
(* wins); an attribute no pair sets keeps its default, or the caller's     *)
(* value under nodefault; pairs with other keys are skipped.  It fails on  *)
(* a name longer than CBORATTR_MAX_SIZE, a string that does not fit its    *)
(* buffer with its NUL, an array longer than maxlen, an element of the     *)
(* wrong type, and a negative value for an unsigned attribute.  It is      *)
(* written over the pairs as a whole, not as a walk of an iterator.        *)

CborTypeOf == ("Integer" :> "int") @@ ("UnsignedInteger" :> "int")
              @@ ("Double" :> "float") @@ ("TextString" :> "text")
              @@ ("ByteString" :> "bytes") @@ ("Boolean" :> "bool")
              @@ ("Array" :> "array") @@ ("Object" :> "map") @@ ("Null" :> "null")

Decodable(a) == a.type # "Double" \/ ~FloatConfig

PairsOf(m) == [k \in 1..(Len(m.items) \div 2) |->
                  [key |-> m.items[2 * k - 1], val |-> m.items[2 * k]]]

\* The union of the write sets of a sequence of results.
Writes(rs) ==
    LET D == UNION {DOMAIN rs[k].w : k \in DOMAIN rs}
    IN  [c \in D |-> rs[CHOOSE k \in DOMAIN rs : c \in DOMAIN rs[k].w].w[c]]

RECURSIVE RefObject(_, _, _), RefArray(_, _)

RefObject(m, attrs, base) ==
    IF m.t # "map" THEN [ok |-> FALSE, w |-> <<>>]
    ELSE
    LET P == PairsOf(m)
        Cell(a) == IF base = NULL THEN a.addr ELSE <<base[1], base[2], a.addr>>
        Hits(a) == {k \in DOMAIN P : /\ P[k].key.t = "text"
                                     /\ P[k].key.s = a.attribute
                                     /\ P[k].val.t = CborTypeOf[a.type]}
        Dec(a) ==
            IF Hits(a) = {} \/ ~Decodable(a)
            THEN [ok |-> TRUE,
                  w  |-> IF ~a.nodefault /\ Decodable(a)
                            /\ a.type \in {"Integer", "UnsignedInteger", "Boolean", "Double"}
                         THEN Cell(a) :> a.dflt ELSE <<>>]
            ELSE LET v == P[Max(Hits(a))].val
                 IN  CASE a.type = "Array"  -> RefArray(v, a.arr)
                       [] a.type = "Object" -> RefObject(v, a.obj, NULL)
                       [] a.type = "Null"   -> [ok |-> TRUE, w |-> <<>>]
                       [] a.type = "TextString" ->
                             [ok |-> v.len < a.len,
                              w  |-> Cell(a) :> [s |-> v.s, len |-> v.len, nul |-> TRUE]]
                       [] a.type = "ByteString" ->
                             [ok |-> v.len <= a.len,
                              w  |-> (Cell(a) :> [s |-> v.s, len |-> v.len])
                                     @@ (a.lenaddr :> v.len)]
                       [] OTHER ->
                             [ok |-> a.type # "UnsignedInteger" \/ v.v >= 0,
                              w  |-> Cell(a) :> v.v]
        rs == [k \in 1..Len(attrs) |-> Dec(attrs[k])]
    IN  [ok |-> /\ \A k \in DOMAIN P :
                      P[k].key.t = "text" => P[k].key.len <= MaxSize
                /\ \A k \in DOMAIN rs : rs[k].ok,
         w  |-> Writes(rs)]

RefArray(v, arr) ==
    LET n  == Len(v.items)
        et == arr.element_type
        Elt(i) == <<arr.store, i - 1>>
        \* where the i-th string starts when each is stored with its NUL
        Start[i \in 1..n + 1] == IF i = 1 THEN 0
                                 ELSE Start[i - 1] + v.items[i - 1].len + 1
        rs == [i \in 1..n |->
                 IF et = "StructObject"
                 THEN RefObject(v.items[i], arr.subtype, Elt(i))
                 ELSE [ok |-> v.items[i].t = CborTypeOf[et],
                       w  |-> Elt(i) :> IF et = "TextString" THEN Start[i]
                                        ELSE v.items[i].v]]
        strs == IF et = "TextString" /\ \A i \in 1..n : v.items[i].t = "text"
                THEN arr.copies :>
                        {[at |-> Start[i], s |-> v.items[i].s, len |-> v.items[i].len,
                          nul |-> TRUE] : i \in 1..n}
                ELSE <<>>
    IN  [ok |-> /\ n <= arr.maxlen
                /\ \A i \in 1..n : rs[i].ok
                /\ et = "TextString" => Start[n + 1] <= arr.storelen,
         w  |-> Writes(rs) @@ strs @@ (arr.count :> n)]

\* The memory the reference decoder leaves, and whether it succeeds.
RefDecode(data) ==
    IF data = <<>> THEN [ok |-> FALSE, mem |-> InitMem]
    ELSE LET r == RefObject(data[1], Attrs, NULL)
         IN  [ok  |-> r.ok,
              mem |-> [c \in Cells |-> IF c \in DOMAIN r.w THEN r.w[c] ELSE InitMem[c]]]

-----------------------------------------------------------------------------
Init ==
    /\ build \in BOOLEAN
    /\ input \in Inputs
    /\ mem = InitMem
    /\ ret = {}
    /\ done = FALSE

\* The caller hands the buffer to cbor_read_flat_attrs.
ReadFlatAttrs ==
    /\ ~done
    /\ LET r == C(build)!cbor_read_flat_attrs(input, Attrs, mem)
       IN  /\ mem' = r.mem
           /\ ret' = r.err
    /\ done' = TRUE
    /\ UNCHANGED <<build, input>>

Next == ReadFlatAttrs

Spec == Init /\ [][Next]_vars

-----------------------------------------------------------------------------
TypeOK ==
    /\ build \in BOOLEAN
    /\ input \in Inputs
    /\ DOMAIN mem = Cells
    /\ \A a \in {IntArr, StrArr, StructArr} : mem[a.count] \in (0..a.maxlen) \cup {Undef}
    /\ mem[CopiesCell] \subseteq [at : Nat, s : {"str"}, len : Nat, nul : BOOLEAN]
    /\ ret \subseteq {"IllegalType", "DataTooLarge", "OutOfMemory", "AdvancePastEOF",
                      "Abort", "Undefined", "ParserInit"}
    /\ done \in BOOLEAN

\* cbor_read_flat_attrs returns 0 exactly when the reference decoder
\* succeeds, and then leaves every attribute, count, array element and
\* string pointer as the reference does.  The code walks the map with one
\* iterator, lets Array and Object reads advance it, replaces err after
\* each scalar, and stuffs defaults before reading.
AgreesWithReference ==
    done => LET r == RefDecode(input)
            IN  /\ (ret = {}) = r.ok
                /\ ret = {} => mem = r.mem

\* Every string cbor_read_array copies into a strings store lies inside the
\* store's storelen bytes together with its NUL (cbor_read_array's
\* len = storelen - (tp - store) and tp += len + 1).
StringsWithinStore ==
    \A cp \in mem[CopiesCell] : cp.nul /\ cp.at + cp.len + 1 <= StrArr.storelen
=============================================================================
