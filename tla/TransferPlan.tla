---------------------------- MODULE TransferPlan ----------------------------
(***************************************************************************)
(* The arithmetic of area transfers: which ranges are addressable, how many *)
(* elements one request may move, into which chunks a long item is cut and *)
(* how many items share one request.  An item is a memory range with the   *)
(* size of the payload a write brings for it.  Bits, bytes and words are   *)
(* the areas addressed by bytes; counters and timers have 2-byte elements. *)
(***************************************************************************)
EXTENDS Integers, SequencesExt

Areas == {"bytes", "elements"}

MaxSection == 65535      \* a 16-bit length or count
MaxItems   == 20
MaxAddress == 16777215   \* a 24-bit address

ElementSize(area) == IF area = "elements" THEN 2 ELSE 1

Bytes(item) == item.count * ElementSize(item.area)

(* Lengths are in bits for byte areas and in bytes for elements.           *)
LengthLimit(area) == IF area = "elements" THEN MaxSection ELSE MaxSection \div 8

Representable(item) == Bytes(item) <= LengthLimit(item.area)

LastWireAddress(item) ==
    IF item.area = "elements"
    THEN item.start + (item.count - 1) * ElementSize(item.area)
    ELSE (item.start + Bytes(item) - 1) * 8

ValidStart(item) ==
    /\ item.area = "elements" => item.start % ElementSize(item.area) = 0
    /\ LastWireAddress([item EXCEPT !.count = 1]) <= MaxAddress

ValidRange(item) ==
    ValidStart(item) /\ item.count # 0 /\ LastWireAddress(item) <= MaxAddress

Least(S) == CHOOSE n \in S : \A other \in S : n <= other

ReadMaximum(pduLength, area) ==
    IF pduLength < 24 THEN 0
    ELSE Least({MaxSection, Least({pduLength - 18, LengthLimit(area)}) \div ElementSize(area)})

WriteMaximum(pduLength, area) ==
    Least({MaxSection, Least({pduLength - 28, LengthLimit(area)}) \div ElementSize(area)})

Maximum(mutates, pduLength, area) ==
    IF mutates THEN WriteMaximum(pduLength, area) ELSE ReadMaximum(pduLength, area)

(* Counters and timers must go in one request.                             *)
FitsOneRequest(mutates, pduLength, item) ==
    item.area = "elements" => item.count <= Maximum(mutates, pduLength, item.area)

(* Full chunks, followed by at most one remainder.                         *)
DropsRemainder(total, maximum) ==                                \* faulty
    IF maximum = 0 THEN <<>> ELSE [i \in 1 .. total \div maximum |-> maximum]
Counts(total, maximum) ==
    IF maximum = 0 THEN <<>>
    ELSE [i \in 1 .. total \div maximum |-> maximum]
           \o (IF total % maximum = 0 THEN <<>> ELSE <<total % maximum>>)

-----------------------------------------------------------------------------
(* Batches of items                                                        *)

JobHeader      == 12     \* header, function and item count of a request
ResponseHeader == 14
AddressSize    == 12     \* of one item
ItemHeader     == 4      \* before the data of one item

Padded(item) == ItemHeader + Bytes(item) + (Bytes(item) % 2)

Total(sizes) ==
    LET sum[n \in 0 .. Len(sizes)] == IF n = 0 THEN 0 ELSE sum[n - 1] + sizes[n]
    IN  sum[Len(sizes)]

Paddeds(items) == [i \in DOMAIN items |-> Padded(items[i])]

RequestBudget(mutates, items) ==
    JobHeader + AddressSize * Len(items) + (IF mutates THEN Total(Paddeds(items)) ELSE 0)

ResponseBudget(mutates, items) ==
    ResponseHeader + (IF mutates THEN Len(items) ELSE Total(Paddeds(items)))

CountsRequestOnly(mutates, pduLength, items) ==                  \* faulty
    Len(items) <= MaxItems /\ RequestBudget(mutates, items) <= pduLength

FitsBatch(mutates, pduLength, items) ==
    /\ Len(items) <= MaxItems
    /\ \A i \in DOMAIN items :
        /\ items[i].count > 0 /\ Representable(items[i])
        /\ mutates => items[i].payload = Bytes(items[i])
    /\ RequestBudget(mutates, items) <= pduLength
    /\ ResponseBudget(mutates, items) <= pduLength

(* The longest prefix of which every prefix fits: items are taken greedily. *)
BatchLength(mutates, pduLength, items) ==
    Max({n \in 0 .. Len(items) :
           \A m \in 1 .. n : FitsBatch(mutates, pduLength, SubSeq(items, 1, m))})
=============================================================================
