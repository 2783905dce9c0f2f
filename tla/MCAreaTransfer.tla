--------------------------- MODULE MCAreaTransfer ---------------------------
(***************************************************************************)
(* Instances of AreaTransfer: calls with items around every boundary of    *)
(* the planners for PDU lengths of 240, 241 and 480 bytes and, for the      *)
(* largest PDU length, around the limits of 16-bit lengths.                *)
(***************************************************************************)
EXTENDS AreaTransfer

At(area, start, count, payload) ==
    [area |-> area, start |-> start, count |-> count, payload |-> payload]

Item(area, start, count) == At(area, start, count, count * ElementSize(area))

ByteItems    == {Item("bytes", 5, n) : n \in {1, 212, 213, 222, 223, 470, 700}}
ElementItems == {Item("elements", 4, n) : n \in {1, 106, 107, 111, 112, 226}}

LastByte == MaxAddress \div 8

EdgeItems ==
    {Item("bytes", 5, 0), Item("elements", 3, 1), At("bytes", 5, 4, 0), At("bytes", 5, 4, 3),
     At("elements", 4, 0, 1), Item("bytes", LastByte - 1, 2), Item("bytes", LastByte - 1, 3),
     Item("elements", MaxAddress - 3, 2), Item("elements", MaxAddress - 1, 2)}

SmallItems == {Item("bytes", 5, 1), Item("bytes", 9, 99), Item("bytes", 7, 300),
               Item("elements", 4, 50)}

(* A single write derives its count from its payload.                      *)
SingleCall(mutates, item) ==
    [kind  |-> IF mutates THEN "writeArea" ELSE "readArea",
     items |-> <<IF mutates THEN [item EXCEPT !.count = item.payload \div ElementSize(item.area)]
                 ELSE item>>]

MultiCall(mutates, items) == [kind |-> IF mutates THEN "writeMulti" ELSE "readMulti", items |-> items]

ItemLists ==
    {<<>>} \union {<<item>> : item \in ByteItems \union ElementItems \union EdgeItems}
    \union {<<a, b>> : a \in SmallItems \union {Item("elements", 3, 1)}, b \in ByteItems}
    \union {<<a, b>> : a \in SmallItems, b \in EdgeItems}
    \union [1 .. 3 -> SmallItems]
    \union {[i \in 1 .. 21 |-> Item("bytes", i, 1)]}

PlannedCalls ==
    {SingleCall(mutates, item) : mutates \in BOOLEAN,
                                 item \in ByteItems \union ElementItems \union EdgeItems}
    \union {MultiCall(mutates, items) : mutates \in BOOLEAN, items \in ItemLists}

WideItems ==
    {Item("bytes", 0, n) : n \in {8191, 8192, 65535, 65536}}
    \union {Item("elements", 0, n) : n \in {32753, 32758, 32759, 32768}}

WideCalls ==
    {SingleCall(mutates, item) : mutates \in BOOLEAN, item \in WideItems}
    \union {MultiCall(mutates, <<a, b>>) : mutates \in BOOLEAN, a \in WideItems,
                                           b \in {Item("bytes", 3, 1), Item("bytes", 0, 8192)}}

With(calls, pduLengths) ==
    {[kind |-> c.kind, items |-> c.items, pduLengths |-> pduLengths] : c \in calls}

MCCalls == With(PlannedCalls, {240, 241, 480}) \union With(WideCalls, {65535})
=============================================================================
