----------------------------- MODULE MCMemoryScan -----------------------------
(* Ten bytes of memory in three regions; a page is two bytes.                *)
EXTENDS MemoryScan

MCLayout == <<[start |-> 4, end |-> 10], [start |-> 12, end |-> 14],
              [start |-> 14, end |-> 16]>>

Mapped == UNION {Layout[i].start .. Layout[i].end - 1 : i \in DOMAIN Layout}

Filled(bytes, holes) ==
    [a \in Mapped |-> IF a \in holes THEN Hole
                     ELSE bytes[Cardinality({b \in Mapped : b <= a})]]

MCMemories ==
    LET Ones   == <<1, 0, 1, 0, 1, 0, 1, 0, 1, 3>>
        Mixed  == <<0, 1, 1, 0, 0, 1, 0, 3, 2, 0>>
        Signed == <<1, 0, 3, 3, 1, 0, 1, 2, 3, 2>>
    IN {Filled(Ones, {}), Filled(Ones, {6, 7}), Filled(Mixed, {}),
        Filled(Mixed, {12, 13}), Filled(Signed, {})}

MCMoves ==
    {{[at |-> 4, to |-> 1]}, {[at |-> 8, to |-> 3]},
     {[at |-> 4, to |-> Hole], [at |-> 5, to |-> Hole]},
     {[at |-> 12, to |-> 0], [at |-> 13, to |-> 0]}}

Standard(type, value) ==
    [NoRequest EXCEPT !.type = type, !.pattern = Encode(value, SizeOf(type))]
ByteString(bytes) == [NoRequest EXCEPT !.type = "bytes", !.pattern = bytes]
Auto(value) ==
    [NoRequest EXCEPT !.mode = "auto", !.type = "i16", !.variants = BuildAutoSearchPlan(value)]
XorOf(target) == [NoRequest EXCEPT !.mode = "xor", !.type = "i16", !.target = target]
Fuzzy(type, compare) ==
    [NoRequest EXCEPT !.mode = "fuzzy", !.type = type, !.compare = compare]
Item(type, value, fixed, offset) ==
    [type |-> type, pattern |-> Encode(value, SizeOf(type)), fixed |-> fixed, offset |-> offset]
Group(items, window) ==
    [NoRequest EXCEPT !.mode = "group", !.type = items[1].type,
                      !.plan = [items |-> items, window |-> window]]

Pair    == Group(<<Item("i8", 1, FALSE, 0), Item("i8", 1, FALSE, 0)>>, 3)
Overlap == Group(<<Item("i16", 1, FALSE, 0), Item("i8", 1, TRUE, 0), Item("i8", 0, FALSE, 0)>>, 3)

MCPointerRequests ==
    [target : {5, 13}, max : {0, 6}, alignment : {1, 2, 3}]

MCFirstRequests ==
    {Standard("i8", 1), Standard("i16", 1), ByteString(<<0, 1>>), Auto(1), XorOf(5), Fuzzy("i8", "unknown"),
     Fuzzy("i16", "unknown"), Pair, Overlap}

MCNextRequests ==
    {Standard("i8", 1), Standard("i16", 1), ByteString(<<0, 1>>), Auto(1), XorOf(5), Fuzzy("i8", "changed"),
     Fuzzy("i8", "increased"), Fuzzy("i16", "unchanged"), Pair, Overlap}
===============================================================================
