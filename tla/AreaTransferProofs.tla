------------------------- MODULE AreaTransferProofs -------------------------
(***************************************************************************)
(* Proofs, for any items, PDU lengths and retries, that requests fit, that *)
(* they tile their items, that results belong to their items, and that the *)
(* progress of a write explains its results.                               *)
(***************************************************************************)
EXTENDS AreaTransfer, DataInduction, FiniteSetTheorems, TLAPS

ItemRecord == [area : Areas, start : Nat, count : Nat, payload : Nat]

Part == [item : Nat, offset : Nat, area : Areas, start : Nat, count : Nat, payload : Int]

Result == [item : Nat, status : ItemResults]

KnownOutcomes == ItemResults \union {"replayedUnknown", "globalRejected"}

Attempt == [location : Part, outcome : KnownOutcomes]

RequestRecord == [fragments : Seq(Part), pduLength : 240 .. MaxSection]

-----------------------------------------------------------------------------
(* The invariant                                                           *)

TypesHold ==
    /\ call \in Calls /\ pduLength \in 240 .. MaxSection /\ TypeOK
    /\ batch \in Seq(Part) /\ results \in Seq(Result)
    /\ progress \in [history : Seq(Attempt), pending : Seq(Part)]
    /\ requests \in Seq(RequestRecord)

Exchanging == pc \in {"send", "await"}
Chunked    == pc = "chunk" \/ (Exchanging /\ chunks # <<>>)
Batched    == Exchanging /\ chunks = <<>>

(* What one item or chunk of n elements may be, for requests of its own.   *)
Overhead == IF Mutates THEN 28 ELSE 18
Admissible(area, n) ==
    /\ n * ElementSize(area) + Overhead <= pduLength
    /\ n * ElementSize(area) <= LengthLimit(area)

AllValid == \A i \in DOMAIN Items : ValidItem(Items[i])

(* What was validated stays valid; nothing ends for an argument later.     *)
PhaseHolds ==
    /\ Len(results) <= Len(Items) /\ \A i \in DOMAIN results : results[i].item = i
    /\ pc \in {"plan", "chunk"} \/ Exchanging => AllValid
    /\ pc \in {"validate", "plan"} => chunks = <<>>
    /\ pc = "validate" => requests = <<>> /\ results = <<>> /\ progress = NoProgress
    /\ pc # "done" => error = "none" /\ ~closed
    /\ error = "invalidInput" => requests = <<>> /\ ~closed

(* Chunks make up the rest of the current item, the first is being sent.   *)
ChunksHold ==
    Chunked =>
         LET area == Items[Current].area
         IN  /\ Current <= Len(Items)
             /\ offset + Total(chunks) * ElementSize(area) = Bytes(Items[Current])
             /\ \A k \in DOMAIN chunks : Admissible(area, chunks[k])
             /\ area = "elements" => chunks \in {<<>>, <<Items[Current].count>>}
             /\ Exchanging => batch = <<Fragment(Current, offset, Head(chunks))>>

(* The items of a batch, and the batch of them.                            *)
TakenItems(n) == [k \in 1 .. n |-> Items[Current + k - 1]]

Batch(n) == [k \in 1 .. n |-> Fragment(Current + k - 1, 0, Items[Current + k - 1].count)]

BatchHolds ==
    Batched =>
      /\ batch # <<>> /\ Current + Len(batch) - 1 <= Len(Items) /\ Multi
      /\ batch = Batch(Len(batch))

Lost == error \in {"protocol", "disconnected", "timeout"}

(* The attempt a write waits for is the request that was sent last.        *)
PendingHolds ==
    Mutates =>
      /\ progress.pending \in {<<>>, batch}
      /\ pc = "await" => progress.pending = batch
      /\ pc \in {"validate", "plan", "chunk", "send"} => progress.pending = <<>>
      /\ pc = "done" /\ progress.pending # <<>> => Lost

InOrder(fragments) ==
    \A j \in DOMAIN fragments : j > 1 =>
        fragments[j - 1].item \in {fragments[j].item, fragments[j].item - 1}

LastOf(fragments) == IF fragments = <<>> THEN 0 ELSE fragments[Len(fragments)].item

LastItem == LastOf(Fragments)

(* Fragments go on from item to item.                                      *)
OrderHolds ==
    /\ InOrder(Fragments)
    /\ pc \in {"validate", "plan"} => LastItem = Len(results)
    /\ pc = "chunk" => LastItem = IF offset = 0 THEN Len(results) ELSE Current
    /\ Exchanging => LastItem = batch[Len(batch)].item

Tiled(i) ==
    LET parts == FragmentsOf(i)
    IN  \A k \in DOMAIN parts :
            parts[k].offset = Before(parts, k) /\ parts[k].start = Items[i].start + Before(parts, k)

Reached(i) == Total(Sizes(FragmentsOf(i)))

Whole(f) == f.area = "elements" => f.count = Items[f.item].count

PartsTile ==
    /\ \A i \in DOMAIN Items : Tiled(i)
    /\ \A j \in DOMAIN Fragments : Whole(Fragments[j])

(* How far the fragments of each item reach.                               *)
ResultsReach ==
    \A i \in DOMAIN results : results[i].status = "success" => Reached(i) = Bytes(Items[i])

ChunksReach ==
    /\ pc = "chunk" => Reached(Current) = offset
    /\ Exchanging /\ chunks # <<>> => Reached(Current) = offset + Bytes(batch[1])

InBatch(i) == Batched /\ i < Current + Len(batch)

Ahead ==
    pc # "done" => \A i \in Current .. Len(Items) :
         \/ Chunked /\ i = Current
         \/ InBatch(i) /\ FragmentsOf(i) = <<batch[i - Current + 1]>>
         \/ ~InBatch(i) /\ FragmentsOf(i) = <<>>

PartsReach == ResultsReach /\ ChunksReach /\ Ahead

Locations(attempts) == [k \in DOMAIN attempts |-> attempts[k].location]

(* Attempts that the PLC answered, and what they tell: the parts that were *)
(* settled, the last with the status and the others with success.          *)
AcknowledgedIn(i, history) == AttemptsOf(i, Selected(history, ItemResults))

Tells(settled, parts, status) ==
    /\ Locations(settled) = parts
    /\ \A k \in DOMAIN settled :
          settled[k].outcome = IF k = Len(settled) THEN status ELSE "success"

ResultsAccounted ==
    \A i \in DOMAIN results :
        Tells(AcknowledgedIn(i, progress.history), FragmentsOf(i), results[i].status)

InFlight(i) == IF Exchanging THEN PartsOf(i, batch) ELSE <<>>

AheadAccounted ==
    pc # "done" => \A i \in Current .. Len(Items) :
        LET settled == AcknowledgedIn(i, progress.history)
        IN  /\ Tells(settled, Locations(settled), "success")
            /\ Locations(settled) \o InFlight(i) = FragmentsOf(i)

Placed(history) == {a.location : a \in Range(history)}

PartsAccounted ==
    Range(Fragments) = Placed(progress.history)
                          \union IF Exchanging \/ Lost THEN Range(batch) ELSE {}

RejectionTold ==
    error = "plcRejected" <=> \E a \in Range(progress.history) : a.outcome = "globalRejected"

AccountHolds ==
    Mutates => ResultsAccounted /\ AheadAccounted /\ PartsAccounted /\ RejectionTold

CoreInv ==
    /\ TypesHold /\ PhaseHolds /\ ChunksHold /\ BatchHolds /\ PendingHolds
    /\ RequestsFit /\ OrderHolds

-----------------------------------------------------------------------------
(* Sums                                                                    *)

Sums(f, sizes, n) == f[0] = 0 /\ \A i \in 1 .. n : f[i] = f[i - 1] + sizes[i]

LEMMA SumsExist ==
    ASSUME NEW n \in Nat, NEW sizes \in [1 .. n -> Nat]
    PROVE  \E f \in [0 .. n -> Nat] : Sums(f, sizes, n)
<1> DEFINE step == [p \in Nat \X (1 .. n) |-> p[1] + sizes[p[2]]]
<1>1. /\ step \in [Nat \X (1 .. n) -> Nat]
      /\ \A x \in Nat, i \in 1 .. n : step[<<x, i>>] = x + sizes[i]
  OBVIOUS
<1> HIDE DEF step
<1>2. PICK f \in [0 .. n -> Nat] : StepByStep(f, n, 0, step)
  BY <1>1, Recursion
<1>3. ASSUME NEW i \in 1 .. n PROVE f[i] = f[i - 1] + sizes[i]
  <2>1. f[i] = step[<<f[i - 1], i>>] /\ f[i - 1] \in Nat
    BY <1>2 DEF StepByStep
  <2> QED BY <1>1, <2>1
<1>4. Sums(f, sizes, n)
  BY <1>2, <1>3 DEF Sums, StepByStep
<1> QED BY <1>4

LEMMA SumsAreUnique ==
    ASSUME NEW n \in Nat, NEW sizes, NEW f, Sums(f, sizes, n)
    PROVE  \A g : Sums(g, sizes, n) => g[n] = f[n]
<1> TAKE g
<1> HAVE Sums(g, sizes, n)
<1>1. g[0] = f[0] /\ \A i \in 1 .. n : g[i - 1] = f[i - 1] => g[i] = f[i]
  BY DEF Sums
<1>2. \A i \in 0 .. n : g[i] = f[i]
  BY <1>1, SameSteps
<1> QED BY <1>2

LEMMA TotalSums ==
    ASSUME NEW n \in Nat, NEW sizes \in [1 .. n -> Nat],
           NEW f \in [0 .. n -> Nat], Sums(f, sizes, n)
    PROVE  Total(sizes) = f[n]
<1> DEFINE Defines(e) == e = [i \in 0 .. n |-> IF i = 0 THEN 0 ELSE e[i - 1] + sizes[i]]
           sum == CHOOSE e : Defines(e)
<1>1. Len(sizes) = n
  OBVIOUS
<1>2. Total(sizes) = sum[n]
  BY <1>1 DEF Total
<1>3. Defines(f)
  <2>1. \A i \in 0 .. n : f[i] = IF i = 0 THEN 0 ELSE f[i - 1] + sizes[i]
    BY DEF Sums
  <2> QED BY <2>1
<1>4. Defines(sum)
  BY <1>3
<1> HIDE DEF sum
<1>5. sum[0] = 0 /\ \A i \in 1 .. n : sum[i] = sum[i - 1] + sizes[i]
  <2>1. sum = [i \in 0 .. n |-> IF i = 0 THEN 0 ELSE sum[i - 1] + sizes[i]]
    BY <1>4
  <2> QED BY <2>1
<1>6. Sums(sum, sizes, n)
  BY <1>5 DEF Sums
<1>7. sum[n] = f[n]
  BY <1>6, SumsAreUnique
<1> QED BY <1>2, <1>7

LEMMA TotalTyped ==
    ASSUME NEW sizes \in Seq(Nat)
    PROVE  Total(sizes) \in Nat
<1>1. Len(sizes) \in Nat /\ sizes \in [1 .. Len(sizes) -> Nat]
  OBVIOUS
<1>2. PICK f \in [0 .. Len(sizes) -> Nat] : Sums(f, sizes, Len(sizes))
  BY <1>1, SumsExist
<1>3. Total(sizes) = f[Len(sizes)]
  BY <1>1, <1>2, TotalSums
<1> QED BY <1>1, <1>2, <1>3

LEMMA TotalNothing == Total(<<>>) = 0
<1> DEFINE f == [i \in 0 .. 0 |-> 0]
<1>1. <<>> \in [1 .. 0 -> Nat] /\ f \in [0 .. 0 -> Nat] /\ Sums(f, <<>>, 0) /\ f[0] = 0
  BY DEF Sums
<1> HIDE DEF f
<1> QED BY <1>1, TotalSums

(* One more number at the end, or at the beginning.                        *)
LEMMA TotalOneMore ==
    ASSUME NEW n \in Nat, NEW sizes \in [1 .. n + 1 -> Nat],
           NEW fewer, fewer = [i \in 1 .. n |-> sizes[i]]
    PROVE  /\ Total(sizes) = Total(fewer) + sizes[n + 1]
           /\ Total(fewer) \in Nat
<1>1. n + 1 \in Nat /\ fewer \in [1 .. n -> Nat]
  OBVIOUS
<1>2. PICK f \in [0 .. n + 1 -> Nat] : Sums(f, sizes, n + 1)
  BY <1>1, SumsExist
<1>3. Total(sizes) = f[n + 1]
  BY <1>1, <1>2, TotalSums
<1> DEFINE g == [i \in 0 .. n |-> f[i]]
<1>4. g \in [0 .. n -> Nat] /\ Sums(g, fewer, n) /\ g[n] = f[n] /\ f[n] \in Nat
  BY <1>2 DEF Sums
<1> HIDE DEF g
<1>5. Total(fewer) = g[n]
  BY <1>1, <1>4, TotalSums
<1>6. f[n + 1] = f[n] + sizes[n + 1]
  <2>1. n + 1 \in 1 .. n + 1 /\ (n + 1) - 1 = n
    OBVIOUS
  <2> QED BY <1>2, <2>1 DEF Sums
<1> QED BY <1>3, <1>4, <1>5, <1>6

LEMMA TotalRest ==
    ASSUME NEW n \in Nat, NEW sizes \in [1 .. n + 1 -> Nat],
           NEW rest, rest = [i \in 1 .. n |-> sizes[i + 1]]
    PROVE  Total(sizes) = sizes[1] + Total(rest) /\ Total(rest) \in Nat
<1>1. n + 1 \in Nat /\ rest \in [1 .. n -> Nat] /\ sizes[1] \in Nat
  OBVIOUS
<1>2. PICK f \in [0 .. n -> Nat] : Sums(f, rest, n)
  BY <1>1, SumsExist
<1>3. Total(rest) = f[n] /\ f[n] \in Nat
  <2>1. Total(rest) = f[n]
    BY <1>1, <1>2, TotalSums
  <2> QED BY <1>2, <2>1
<1> DEFINE g == [i \in 0 .. n + 1 |-> IF i = 0 THEN 0 ELSE sizes[1] + f[i - 1]]
<1>4. g \in [0 .. n + 1 -> Nat] /\ g[0] = 0 /\ g[n + 1] = sizes[1] + f[n]
  <2>1. ASSUME NEW i \in 0 .. n + 1, i # 0 PROVE sizes[1] + f[i - 1] \in Nat
    <3>1. i - 1 \in 0 .. n
      BY <2>1
    <3>2. f[i - 1] \in Nat
      BY <3>1
    <3> QED BY <1>1, <3>2
  <2> QED BY <2>1
<1>5. ASSUME NEW i \in 1 .. n + 1 PROVE g[i] = g[i - 1] + sizes[i]
  <2>1. CASE i = 1
    <3>1. g[1] = sizes[1] + f[0] /\ f[0] = 0
      BY <1>2 DEF Sums
    <3>2. g[0] = 0 /\ 1 - 1 = 0 /\ sizes[1] + 0 = sizes[1] /\ 0 + sizes[1] = sizes[1]
      BY <1>1
    <3> QED BY <2>1, <3>1, <3>2
  <2>2. CASE i # 1
    <3>1. i - 1 \in 1 .. n /\ i - 1 \in 0 .. n + 1 /\ i - 1 # 0 /\ (i - 1) - 1 \in 0 .. n /\ i # 0
      BY <2>2
    <3>2. f[i - 1] = f[(i - 1) - 1] + rest[i - 1] /\ rest[i - 1] = sizes[i]
      BY <1>2, <3>1 DEF Sums
    <3>3. g[i] = sizes[1] + f[i - 1] /\ g[i - 1] = sizes[1] + f[(i - 1) - 1]
      BY <3>1
    <3>4. f[(i - 1) - 1] \in Nat /\ sizes[i] \in Nat
      BY <3>1
    <3> DEFINE a == sizes[1]
               b == f[(i - 1) - 1]
               c == sizes[i]
    <3>5. a \in Nat /\ b \in Nat /\ c \in Nat /\ g[i] = a + (b + c) /\ g[i - 1] = a + b
      BY <1>1, <3>2, <3>3, <3>4
    <3> HIDE DEF a, b, c, g
    <3>6. g[i] = g[i - 1] + c
      BY <3>5
    <3> QED BY <3>6 DEF c
  <2> QED BY <2>1, <2>2
<1> HIDE DEF g
<1>6. Total(sizes) = g[n + 1]
  BY <1>1, <1>4, <1>5, TotalSums DEF Sums
<1> QED BY <1>3, <1>4, <1>6

(* Equal numbers, and numbers that are not greater.                        *)
LEMMA TotalEqual ==
    ASSUME NEW n \in Nat, NEW m \in Nat
    PROVE  Total([i \in 1 .. n |-> m]) = n * m
<1> DEFINE f == [i \in 0 .. n |-> i * m]
           sizes == [i \in 1 .. n |-> m]
<1>1. sizes \in [1 .. n -> Nat]
  OBVIOUS
<1>2. \A i \in Nat : i * m \in Nat
  OBVIOUS
<1>3. \A i \in Nat : (i + 1) * m = i * m + m
  OBVIOUS
<1>4. ASSUME NEW i \in 1 .. n PROVE i * m = (i - 1) * m + m
  <2>1. i - 1 \in Nat /\ (i - 1) + 1 = i
    OBVIOUS
  <2> QED BY <1>3, <2>1
<1>5. f \in [0 .. n -> Nat] /\ f[n] = n * m /\ f[0] = 0 * m /\ 0 * m = 0
  BY <1>2
<1>6. Sums(f, sizes, n)
  BY <1>4, <1>5 DEF Sums
<1> HIDE DEF f, sizes
<1>7. Total(sizes) = f[n]
  BY <1>1, <1>5, <1>6, TotalSums
<1> QED BY <1>5, <1>7 DEF sizes

LEMMA TotalAtMost ==
    ASSUME NEW n \in Nat, NEW sizes \in [1 .. n -> Nat], NEW others \in [1 .. n -> Nat],
           \A i \in 1 .. n : sizes[i] <= others[i]
    PROVE  Total(sizes) <= Total(others)
<1>1. PICK f \in [0 .. n -> Nat] : Sums(f, sizes, n)
  BY SumsExist
<1>2. PICK g \in [0 .. n -> Nat] : Sums(g, others, n)
  BY SumsExist
<1>3. Total(sizes) = f[n] /\ Total(others) = g[n]
  <2>1. Total(sizes) = f[n]
    BY <1>1, TotalSums
  <2>2. Total(others) = g[n]
    BY <1>2, TotalSums
  <2> QED BY <2>1, <2>2
<1> DEFINE T == {i \in 0 .. n : ~(f[i] <= g[i])}
<1>4. ASSUME T # {} PROVE FALSE
  <2>1. T \subseteq Nat
    OBVIOUS
  <2>2. PICK m \in T : \A k \in T : m <= k
    <3> HIDE DEF T
    <3> QED BY <1>4, <2>1, LeastNumber
  <2>3. m \in 0 .. n /\ ~(f[m] <= g[m]) /\ m # 0
    BY <1>1, <1>2, <2>2 DEF Sums
  <2>4. m \in 1 .. n /\ m - 1 \in 0 .. n /\ f[m - 1] <= g[m - 1]
    BY <2>2, <2>3
  <2>5. f[m] = f[m - 1] + sizes[m] /\ g[m] = g[m - 1] + others[m] /\ sizes[m] <= others[m]
    BY <1>1, <1>2, <2>4 DEF Sums
  <2>6. /\ f[m - 1] \in Nat /\ g[m - 1] \in Nat /\ sizes[m] \in Nat /\ others[m] \in Nat
        /\ f[m] \in Nat /\ g[m] \in Nat
    BY <2>4
  <2> HIDE DEF T
  <2> QED BY <2>3, <2>4, <2>5, <2>6
<1>5. n \in 0 .. n /\ (~(f[n] <= g[n]) => n \in T)
  OBVIOUS
<1> HIDE DEF T
<1> QED BY <1>3, <1>4, <1>5

-----------------------------------------------------------------------------
(* The arithmetic of a plan                                                *)

LEMMA LeastOfTwo ==
    ASSUME NEW a \in Int, NEW b \in Int
    PROVE  Least({a, b}) = IF a <= b THEN a ELSE b
<1> DEFINE m == IF a <= b THEN a ELSE b
<1>1. m \in {a, b} /\ \A n \in {a, b} : m <= n
  OBVIOUS
<1>2. ASSUME NEW n \in {a, b}, \A other \in {a, b} : n <= other PROVE n = m
  BY <1>2
<1> HIDE DEF m
<1>3. Least({a, b}) = m
  BY <1>1, <1>2 DEF Least
<1> QED BY <1>3 DEF m

LEMMA Limits ==
    /\ MaxSection = 65535 /\ MaxAddress = 16777215
    /\ LengthLimit("elements") = 65535 /\ LengthLimit("bytes") = 8191
    /\ ElementSize("elements") = 2 /\ ElementSize("bytes") = 1
BY DEF MaxSection, MaxAddress, LengthLimit, ElementSize

LEMMA MaxSectionIs ==
    /\ MaxSection \in Nat /\ \A n \in 1 .. MaxSection : n \in Nat /\ n # 0
    /\ \A n \in 240 .. MaxSection : n \in Nat /\ n >= 240
<1>1. MaxSection \in Nat
  BY DEF MaxSection
<1> QED BY <1>1

OverheadOf(mutates) == IF mutates THEN 28 ELSE 18

(* A number of elements is within the maximum of one request if they and   *)
(* what goes with them fit its PDU and its length field.                   *)
LEMMA MaximumMeans ==
    ASSUME NEW mutates \in BOOLEAN, NEW size \in 240 .. MaxSection, NEW area \in Areas
    PROVE  /\ Maximum(mutates, size, area) \in 1 .. MaxSection
           /\ \A n \in Nat : n <= Maximum(mutates, size, area) <=>
                /\ n * ElementSize(area) + OverheadOf(mutates) <= size
                /\ n * ElementSize(area) <= LengthLimit(area)
<1> DEFINE over == OverheadOf(mutates)
           room == IF size - over <= LengthLimit(area) THEN size - over ELSE LengthLimit(area)
           most == room \div ElementSize(area)
<1>1. size \in Nat /\ 240 <= size /\ size <= 65535 /\ over \in {18, 28}
  BY Limits DEF OverheadOf
<1>2. area = "elements" \/ area = "bytes"
  BY DEF Areas
<1>3. /\ LengthLimit(area) \in {8191, 65535} /\ ElementSize(area) \in {1, 2}
      /\ LengthLimit(area) = 65535 <=> ElementSize(area) = 2
  BY <1>2, Limits
<1>4. room \in Nat /\ room >= 212 /\ room <= 65535 /\ size - over \in Int
  BY <1>1, <1>3
<1>5. Least({size - over, LengthLimit(area)}) = room
  BY <1>1, <1>3, LeastOfTwo
<1>6. /\ most \in Int /\ most >= 1 /\ most <= 65535
      /\ \A n \in Nat : n <= most <=> n * ElementSize(area) <= room
  <2> HIDE DEF room
  <2>1. CASE ElementSize(area) = 1
    <3>1. most = room /\ \A n \in Nat : n * 1 = n
      BY <1>4, <2>1
    <3> HIDE DEF most
    <3> QED BY <1>4, <2>1, <3>1
  <2>2. CASE ElementSize(area) = 2
    <3>1. most \in Int /\ (room = 2 * most \/ room = 2 * most + 1)
      BY <1>4, <2>2
    <3> HIDE DEF most
    <3>2. ASSUME NEW n \in Nat PROVE n <= most <=> n * 2 <= room
      BY <3>1
    <3>3. most >= 1 /\ most <= 65535
      BY <1>4, <3>1
    <3> QED BY <2>2, <3>1, <3>2, <3>3
  <2> QED BY <1>3, <2>1, <2>2
<1>7. Maximum(mutates, size, area) = most
  <2>1. Least({MaxSection, most}) = most
    <3> HIDE DEF most
    <3>1. MaxSection = 65535
      BY DEF MaxSection
    <3>2. most \in Int /\ most <= 65535
      BY <1>6
    <3>3. most = IF MaxSection <= most THEN MaxSection ELSE most
      BY <3>1, <3>2
    <3>4. MaxSection \in Int
      BY <3>1
    <3> QED BY <3>2, <3>3, <3>4, LeastOfTwo
  <2>2. ~(size < 24)
    BY <1>1
  <2>3. mutates => WriteMaximum(size, area) = most
    BY <1>5, <2>1 DEF WriteMaximum, OverheadOf
  <2>4. ~mutates => ReadMaximum(size, area) = most
    BY <1>5, <2>1, <2>2 DEF ReadMaximum, OverheadOf
  <2> QED BY <2>3, <2>4 DEF Maximum
<1>8. \A n \in Nat : n * ElementSize(area) <= room <=>
          n * ElementSize(area) + over <= size /\ n * ElementSize(area) <= LengthLimit(area)
  <2>1. ASSUME NEW n \in Nat
        PROVE  n * ElementSize(area) <= room <=>
          n * ElementSize(area) + over <= size /\ n * ElementSize(area) <= LengthLimit(area)
    <3> DEFINE bytes == n * ElementSize(area)
    <3>1. bytes \in Nat
      BY <1>3
    <3> HIDE DEF bytes, over
    <3>2. bytes <= room <=> bytes + over <= size /\ bytes <= LengthLimit(area)
      BY <1>1, <1>3, <3>1
    <3> QED BY <3>2 DEF bytes
  <2> QED BY <2>1
<1> HIDE DEF most, room, over
<1>9. Maximum(mutates, size, area) \in 1 .. MaxSection
  <2>1. most \in Int /\ 1 <= most /\ most <= MaxSection /\ MaxSection \in Int
    BY <1>6, Limits
  <2>2. most \in 1 .. MaxSection
    BY <2>1
  <2> QED BY <1>7, <2>2, Zenon
<1>10. ASSUME NEW n \in Nat
       PROVE  n <= Maximum(mutates, size, area) <=>
                /\ n * ElementSize(area) + OverheadOf(mutates) <= size
                /\ n * ElementSize(area) <= LengthLimit(area)
  <2>1. /\ n <= most <=> n * ElementSize(area) <= room
        /\ n * ElementSize(area) <= room <=>
             n * ElementSize(area) + over <= size /\ n * ElementSize(area) <= LengthLimit(area)
    BY <1>6, <1>8
  <2> QED BY <1>7, <2>1, Zenon DEF over
<1> QED BY <1>9, <1>10, Zenon

(* The chunks of an item: none is empty or greater than the maximum, and   *)
(* together they are the item.                                             *)
LEMMA CountsMake ==
    ASSUME NEW total \in Nat, NEW maximum \in Nat \ {0}
    PROVE  LET counts == Counts(total, maximum)
           IN  /\ counts \in Seq(1 .. maximum) /\ Total(counts) = total
               /\ total \in 1 .. maximum => counts = <<total>>
<1> DEFINE q == total \div maximum
           r == total % maximum
           full == [i \in 1 .. q |-> maximum]
           last == IF r = 0 THEN <<>> ELSE <<r>>
<1>1. /\ q \in Nat /\ r \in Nat /\ r < maximum /\ total = q * maximum + r
  <2>1. q \in Int /\ r \in 0 .. maximum - 1 /\ total = maximum * q + r
    OBVIOUS
  <2>2. q >= 0
    <3>1. \A x \in Int : x < 0 => maximum * x <= -maximum
      OBVIOUS
    <3> HIDE DEF q, r
    <3> QED BY <2>1, <3>1
  <2>3. q * maximum = maximum * q
    BY <2>1
  <2> HIDE DEF q, r
  <2> QED BY <2>1, <2>2, <2>3
<1>2. Counts(total, maximum) = full \o last
  BY DEF Counts
<1> HIDE DEF q, r
<1>3. full \in Seq(1 .. maximum) /\ Len(full) = q /\ full \in [1 .. q -> Nat]
  BY <1>1
<1>4. Total(full) = q * maximum
  BY <1>1, TotalEqual
<1>5. CASE r = 0
  <2>1. full \o last = full
    BY <1>3, <1>5, ConcatEmptySeq
  <2>2. total \in 1 .. maximum => full = <<total>>
    <3> SUFFICES ASSUME total \in 1 .. maximum PROVE full = <<total>>
      OBVIOUS
    <3>1. total = q * maximum /\ q * maximum \in Nat
      BY <1>1, <1>5
    <3>2. q = 1
      <4>1. q # 0
        BY <3>1
      <4>2. q >= 2 => q * maximum >= 2 * maximum
        BY <1>1
      <4> QED BY <1>1, <3>1, <4>1, <4>2
    <3>3. total = maximum
      BY <3>1, <3>2
    <3> QED BY <3>2, <3>3
  <2>3. total = q * maximum
    BY <1>1, <1>5
  <2> HIDE DEF full, last
  <2> QED BY <1>2, <1>3, <1>4, <2>1, <2>2, <2>3
<1>6. CASE r # 0
  <2>1. last = <<r>>
    BY <1>6
  <2>2. full \o last = Append(full, r)
    <3>1. r \in Nat /\ full \in Seq(Nat)
      BY <1>1, <1>3
    <3> HIDE DEF full, last
    <3> QED BY <2>1, <3>1, AppendIsConcat
  <2> DEFINE counts == Append(full, r)
  <2>3. counts \in Seq(1 .. maximum) /\ counts \in [1 .. q + 1 -> Nat] /\ counts[q + 1] = r
    <3>1. r \in 1 .. maximum
      BY <1>1, <1>6
    <3> HIDE DEF full
    <3>2. /\ counts \in Seq(1 .. maximum) /\ Len(counts) = q + 1 /\ counts[q + 1] = r
      BY <1>1, <1>3, <3>1, AppendProperties
    <3> HIDE DEF counts
    <3>3. \A i \in 1 .. q + 1 : counts[i] \in Nat
      BY <1>1, <3>2
    <3>4. counts \in [1 .. q + 1 -> 1 .. maximum]
      BY <3>2
    <3> QED BY <3>2, <3>3, <3>4
  <2>4. full = [i \in 1 .. q |-> counts[i]]
    BY <1>1, <1>3
  <2> HIDE DEF counts
  <2>5. Total(counts) = Total(full) + r
    <3> HIDE DEF full
    <3> QED BY <1>1, <2>3, <2>4, TotalOneMore
  <2>6. total \in 1 .. maximum => counts = <<total>>
    <3> SUFFICES ASSUME total \in 1 .. maximum PROVE counts = <<total>>
      OBVIOUS
    <3>1. q = 0
      <4>1. q # 0 => q * maximum >= maximum
        BY <1>1
      <4> QED BY <1>1, <1>6, <4>1
    <3>2. total = r
      BY <1>1, <3>1
    <3>3. full = <<>>
      BY <3>1
    <3> HIDE DEF full
    <3>4. Append(full, r) = <<r>>
      BY <1>1, <3>3
    <3> QED BY <3>2, <3>4 DEF counts
  <2>7. Counts(total, maximum) = counts
    <3> HIDE DEF full, last
    <3> QED BY <1>2, <2>2 DEF counts
  <2> HIDE DEF full, last
  <2> QED BY <1>1, <1>4, <2>3, <2>5, <2>6, <2>7
<1> QED BY <1>5, <1>6

-----------------------------------------------------------------------------
(* Items and their fragments                                               *)

LEMMA CallTyped ==
    ASSUME call \in Calls
    PROVE  /\ Items \in Seq(ItemRecord) /\ Len(Items) \in Nat
           /\ DOMAIN Items = 1 .. Len(Items)
           /\ \A i \in 1 .. Len(Items) : Items[i] \in ItemRecord
           /\ call.kind \in CallKinds /\ (~Multi => Len(Items) = 1)
           /\ call.pduLengths \subseteq 240 .. MaxSection
           /\ Mutates \in BOOLEAN /\ Multi \in BOOLEAN
<1>1. Items \in Seq(ItemRecord)
  BY TransferAssumption DEF Items, ItemRecord
<1>2. /\ Len(Items) \in Nat /\ DOMAIN Items = 1 .. Len(Items)
      /\ \A i \in 1 .. Len(Items) : Items[i] \in ItemRecord
  BY <1>1
<1>3. call.kind \in CallKinds /\ (~Multi => Len(Items) = 1)
  BY TransferAssumption DEF Multi, Items, CallKinds
<1> QED BY <1>1, <1>2, <1>3, TransferAssumption DEF Mutates, Multi

(* An item or a fragment of it, as far as its size is concerned.           *)
LEMMA BytesTyped ==
    ASSUME NEW item, item.area \in Areas, item.count \in Nat
    PROVE  /\ Bytes(item) \in Nat /\ (item.count # 0 => Bytes(item) # 0)
           /\ Padded(item) \in Nat /\ ItemHeader + Bytes(item) <= Padded(item)
           /\ ItemHeader + Bytes(item) \in Nat
           /\ Bytes(item) = item.count * ElementSize(item.area)
<1>1. item.area = "elements" \/ item.area = "bytes"
  BY DEF Areas
<1>2. ElementSize(item.area) \in {1, 2}
  BY <1>1, Limits
<1>3. Bytes(item) = item.count * ElementSize(item.area)
  BY DEF Bytes
<1> DEFINE n == item.count
           b == Bytes(item)
<1>4. n \in Nat /\ b = n * ElementSize(item.area)
  BY <1>3
<1> HIDE DEF n, b
<1>5. b \in Nat /\ (n # 0 => b # 0)
  BY <1>2, <1>4
<1>6. b % 2 \in 0 .. 1
  BY <1>5
<1>7. Padded(item) = 4 + b + (b % 2) /\ ItemHeader = 4
  BY DEF Padded, ItemHeader, b
<1>8. Padded(item) \in Nat /\ ItemHeader + b <= Padded(item) /\ ItemHeader + b \in Nat
  BY <1>5, <1>6, <1>7
<1> QED BY <1>3, <1>5, <1>8 DEF n, b

LEMMA FragmentIs ==
    ASSUME call \in Calls, NEW i \in 1 .. Len(Items), NEW at \in Nat, NEW n \in Nat,
           NEW f, f = Fragment(i, at, n)
    PROVE  /\ f \in Part
           /\ f.item = i /\ f.offset = at /\ f.area = Items[i].area
           /\ f.start = Items[i].start + at /\ f.count = n
           /\ Bytes(f) = n * ElementSize(Items[i].area)
           /\ Items[i].payload >= at + Bytes(f) => f.payload = Bytes(f)
<1> DEFINE item == Items[i]
           b == n * ElementSize(item.area)
           rest == item.payload - at
           size == Least({rest, b})
<1>1. item \in ItemRecord
  BY CallTyped
<1>2. /\ item.area \in Areas /\ item.start \in Nat /\ item.payload \in Nat
      /\ item.start + at \in Nat /\ rest \in Int
  BY <1>1 DEF ItemRecord
<1>3. b \in Nat
  <2>1. item.area = "elements" \/ item.area = "bytes"
    BY <1>2 DEF Areas
  <2>2. ElementSize(item.area) \in {1, 2}
    BY <2>1, Limits
  <2> QED BY <2>2
<1>4. f = [item |-> i, offset |-> at, area |-> item.area, start |-> item.start + at,
           count |-> n, payload |-> size]
  BY DEF Fragment
<1>5. Bytes(f) = b
  BY <1>4 DEF Bytes
<1>6. size \in Int /\ (item.payload >= at + b => size = b)
  <2>1. size = IF rest <= b THEN rest ELSE b
    <3>1. rest \in Int /\ b \in Int
      BY <1>2, <1>3
    <3> HIDE DEF rest, b
    <3>2. Least({rest, b}) = IF rest <= b THEN rest ELSE b
      BY <3>1, LeastOfTwo
    <3> QED BY <3>2
  <2> HIDE DEF b, size
  <2> QED BY <1>2, <1>3, <2>1
<1>7. f \in Part
  <2> HIDE DEF size, item
  <2>1. i \in Nat
    BY CallTyped
  <2> QED BY <1>2, <1>4, <1>6, <2>1 DEF Part
<1> QED BY <1>4, <1>5, <1>6, <1>7

(* A fragment that is the whole item.                                      *)
LEMMA WholeItem ==
    ASSUME call \in Calls, NEW i \in 1 .. Len(Items),
           NEW f, f = Fragment(i, 0, Items[i].count)
    PROVE  /\ f \in Part
           /\ f.item = i /\ f.offset = 0 /\ f.area = Items[i].area
           /\ f.start = Items[i].start /\ f.count = Items[i].count
           /\ Bytes(f) = Bytes(Items[i])
           /\ Items[i].payload = Bytes(f) => f.payload = Bytes(f)
<1>1. /\ Items[i] \in ItemRecord /\ Items[i].count \in Nat /\ Items[i].area \in Areas
      /\ Items[i].start \in Nat /\ Items[i].payload \in Nat
  BY CallTyped DEF ItemRecord
<1>2. PICK at \in Nat : at = 0
  OBVIOUS
<1>3. f = Fragment(i, at, Items[i].count)
  BY <1>2
<1> DEFINE n == Items[i].count
<1>4. n \in Nat /\ f = Fragment(i, at, n)
  BY <1>1, <1>3
<1> HIDE DEF n
<1>5. /\ f \in Part
      /\ f.item = i /\ f.offset = at /\ f.area = Items[i].area
      /\ f.start = Items[i].start + at /\ f.count = n
      /\ Bytes(f) = n * ElementSize(Items[i].area)
      /\ Items[i].payload >= at + Bytes(f) => f.payload = Bytes(f)
  BY <1>4, FragmentIs
<1>6. Bytes(Items[i]) = n * ElementSize(Items[i].area) /\ Bytes(Items[i]) \in Nat
  BY <1>1, BytesTyped DEF n
<1>7. Items[i].start + at = Items[i].start
  BY <1>1, <1>2
<1>8. Items[i].payload = Bytes(f) => Items[i].payload >= at + Bytes(f)
  <2> DEFINE b == Bytes(f)
             p == Items[i].payload
  <2>1. b \in Nat /\ p \in Nat
    BY <1>1, <1>5, <1>6
  <2> HIDE DEF b, p
  <2>2. p = b => p >= at + b
    BY <1>2, <2>1
  <2> QED BY <2>2 DEF b, p
<1> QED BY <1>2, <1>5, <1>6, <1>7, <1>8 DEF n

(* A batch is empty or a prefix of the items that fits.                    *)
LEMMA BatchLengthMeans ==
    ASSUME NEW mutates \in BOOLEAN, NEW size \in Nat, NEW items \in Seq(ItemRecord)
    PROVE  LET n == BatchLength(mutates, size, items)
           IN  /\ n \in 0 .. Len(items)
               /\ n # 0 => FitsBatch(mutates, size, SubSeq(items, 1, n))
<1> DEFINE Fits(m) == FitsBatch(mutates, size, SubSeq(items, 1, m))
           S == {n \in 0 .. Len(items) : \A m \in 1 .. n : Fits(m)}
           T == {k \in 0 .. Len(items) : Len(items) - k \in S}
<1>1. Len(items) \in Nat
  OBVIOUS
<1>2. BatchLength(mutates, size, items) = Max(S)
  BY Zenon DEF BatchLength
<1> HIDE DEF Fits
<1>3. 0 \in S /\ S \subseteq 0 .. Len(items)
  BY <1>1
<1>4. T \subseteq Nat /\ Len(items) \in T
  BY <1>1, <1>3
<1> HIDE DEF S
<1>5. PICK k \in T : \A j \in T : k <= j
  <2> HIDE DEF T
  <2> QED BY <1>4, LeastNumber
<1>6. \A n \in S : Len(items) - n \in T
  <2>1. ASSUME NEW n \in S PROVE Len(items) - n \in T
    <3>1. n \in 0 .. Len(items)
      BY <1>3
    <3>2. Len(items) - n \in 0 .. Len(items) /\ Len(items) - (Len(items) - n) = n
      BY <1>1, <3>1
    <3> QED BY <3>2
  <2> QED BY <2>1
<1> DEFINE most == Len(items) - k
<1>7. most \in S /\ \A n \in S : most >= n
  <2>1. k \in 0 .. Len(items) /\ most \in S
    BY <1>5
  <2>2. ASSUME NEW n \in S PROVE most >= n
    <3>1. k <= Len(items) - n /\ n \in 0 .. Len(items)
      BY <1>3, <1>5, <1>6
    <3> QED BY <1>1, <2>1, <3>1
  <2> QED BY <2>1, <2>2
<1>8. \E x \in S : \A y \in S : x >= y
  BY <1>7
<1>9. Max(S) \in S
  BY <1>8 DEF Max
<1>10. Max(S) \in 0 .. Len(items) /\ \A m \in 1 .. Max(S) : Fits(m)
  BY <1>9 DEF S
<1>11. Max(S) # 0 => Fits(Max(S))
  <2>1. Max(S) # 0 => Max(S) \in 1 .. Max(S)
    BY <1>1, <1>10
  <2> QED BY <1>10, <2>1
<1> QED BY <1>2, <1>10, <1>11, Zenon DEF Fits

(* What is known of the items of a batch.                                  *)
LEMMA TakenMeans ==
    ASSUME TypesHold, Current <= Len(Items), Taken > 0
    PROVE  /\ Taken \in 1 .. Len(Items) - Current + 1 /\ Multi
           /\ Taken <= 20
           /\ \A k \in 1 .. Taken :
                 LET item == Items[Current + k - 1]
                 IN  /\ item.count # 0 /\ Bytes(item) <= LengthLimit(item.area)
                     /\ Mutates => item.payload = Bytes(item)
           /\ LET sum == Total(Paddeds(TakenItems(Taken)))
              IN  /\ 12 + 12 * Taken + (IF Mutates THEN sum ELSE 0) <= pduLength
                  /\ 14 + (IF Mutates THEN Taken ELSE sum) <= pduLength
<1> DEFINE n == Taken
           rest == SubSeq(Items, Current, Len(Items))
           items == SubSeq(rest, 1, n)
<1>1. /\ Items \in Seq(ItemRecord) /\ Len(Items) \in Nat /\ Mutates \in BOOLEAN
      /\ call \in Calls /\ Len(results) \in Nat /\ pduLength \in 240 .. MaxSection
  BY CallTyped DEF TypesHold
<1>2. Current \in 1 .. Len(Items) /\ Current \in Int /\ pduLength \in Nat
  BY <1>1, Limits DEF Current
<1>3. rest \in Seq(ItemRecord) /\ Len(rest) = Len(Items) - Current + 1
  BY <1>1, <1>2, SubSeqProperties
<1>4. Multi /\ n = BatchLength(Mutates, pduLength, rest)
  <2>1. Taken # 0
    OBVIOUS
  <2> QED BY <2>1, Zenon DEF Taken
<1> HIDE DEF rest, n
<1>5. n \in 0 .. Len(rest) /\ (n # 0 => FitsBatch(Mutates, pduLength, SubSeq(rest, 1, n)))
  BY <1>1, <1>2, <1>3, <1>4, BatchLengthMeans, Zenon
<1>6. n \in 1 .. Len(Items) - Current + 1 /\ n \in Nat /\ n # 0
  BY <1>1, <1>2, <1>3, <1>5 DEF n
<1>7. FitsBatch(Mutates, pduLength, items)
  BY <1>5, <1>6, Zenon
<1>8. items = TakenItems(n)
  <2>1. items = SubSeq(Items, Current + 1 - 1, Current + n - 1)
    <3>1. /\ Current \in 1 .. Len(Items) /\ Len(Items) \in 1 .. Len(Items)
          /\ 1 \in 1 .. Len(Items) - Current + 1
      BY <1>1, <1>2, <1>6
    <3> QED BY <1>1, <1>6, <3>1, SubSeqOfSubSeq DEF rest
  <2>2. SubSeq(Items, Current, Current + n - 1) = TakenItems(n)
    <3>1. (Current + n - 1) - Current + 1 = n
      BY <1>2, <1>6
    <3> QED BY <1>2, <1>6, <3>1 DEF TakenItems
  <2>3. Current + 1 - 1 = Current
    BY <1>2
  <2> QED BY <2>1, <2>2, <2>3
<1> HIDE DEF items
<1>9. Len(items) = n /\ DOMAIN items = 1 .. n /\ \A k \in 1 .. n : items[k] = Items[Current + k - 1]
  BY <1>6, <1>8 DEF TakenItems
<1>10. /\ Len(items) <= MaxItems
       /\ \A k \in DOMAIN items :
            /\ items[k].count > 0 /\ Representable(items[k])
            /\ Mutates => items[k].payload = Bytes(items[k])
       /\ RequestBudget(Mutates, items) <= pduLength
       /\ ResponseBudget(Mutates, items) <= pduLength
  BY <1>7, Zenon DEF FitsBatch
<1>11. /\ RequestBudget(Mutates, items) =
            12 + 12 * n + (IF Mutates THEN Total(Paddeds(items)) ELSE 0)
       /\ ResponseBudget(Mutates, items) = 14 + (IF Mutates THEN n ELSE Total(Paddeds(items)))
  BY <1>9 DEF RequestBudget, ResponseBudget, JobHeader, AddressSize, ResponseHeader
<1>12. \A k \in 1 .. n :
          LET item == Items[Current + k - 1]
          IN  /\ item.count # 0 /\ Bytes(item) <= LengthLimit(item.area)
              /\ Mutates => item.payload = Bytes(item)
  <2>1. ASSUME NEW k \in 1 .. n
        PROVE  /\ items[k].count # 0 /\ Bytes(items[k]) <= LengthLimit(items[k].area)
               /\ Mutates => items[k].payload = Bytes(items[k])
    <3>1. k \in DOMAIN items /\ (items[k].count > 0 => items[k].count # 0)
      BY <1>9
    <3> QED BY <1>10, <3>1 DEF Representable
  <2> QED BY <1>9, <2>1
<1>13. n <= 20
  BY <1>9, <1>10 DEF MaxItems
<1>14. LET sum == Total(Paddeds(items))
       IN  /\ 12 + 12 * n + (IF Mutates THEN sum ELSE 0) <= pduLength
           /\ 14 + (IF Mutates THEN n ELSE sum) <= pduLength
  BY <1>10, <1>11, Zenon
<1> QED BY <1>4, <1>6, <1>8, <1>12, <1>13, <1>14 DEF n

LEMMA ValidMeans ==
    ASSUME TypesHold, NEW i \in 1 .. Len(Items), ValidItem(Items[i])
    PROVE  /\ Items[i].count # 0 /\ LastWireAddress(Items[i]) <= MaxAddress
           /\ Mutates => Items[i].payload = Bytes(Items[i])
           /\ Items[i].area = "elements" => Admissible(Items[i].area, Items[i].count)
<1> DEFINE item == Items[i]
<1>1. item \in ItemRecord /\ Mutates \in BOOLEAN /\ pduLength \in 240 .. MaxSection
  BY CallTyped DEF TypesHold
<1>2. /\ ValidRange(item) /\ FitsOneRequest(Mutates, pduLength, item)
      /\ Mutates => PayloadMatches(item)
  BY Zenon DEF ValidItem
<1>3. ASSUME item.area = "elements" PROVE Admissible(item.area, item.count)
  <2>1. item.count \in Nat /\ item.area \in Areas
    BY <1>1 DEF ItemRecord
  <2> HIDE DEF item
  <2>2. item.count <= Maximum(Mutates, pduLength, item.area)
    BY <1>2, <1>3, Zenon DEF FitsOneRequest
  <2>3. /\ item.count * ElementSize(item.area) + OverheadOf(Mutates) <= pduLength
        /\ item.count * ElementSize(item.area) <= LengthLimit(item.area)
    BY <1>1, <2>1, <2>2, MaximumMeans, Zenon
  <2> QED BY <2>3, Zenon DEF Admissible, Overhead, OverheadOf
<1> HIDE DEF item
<1>4. item.count # 0 /\ LastWireAddress(item) <= MaxAddress
  BY <1>2 DEF ValidRange
<1>5. Mutates => item.payload = Bytes(item)
  BY <1>2 DEF PayloadMatches
<1> QED BY <1>3, <1>4, <1>5 DEF item

-----------------------------------------------------------------------------
(* Requests                                                                *)

(* What RequestsFit says of one request.                                   *)
Fits(fragments, size) ==
    /\ Len(fragments) <= MaxItems
    /\ RequestSize(fragments) <= size /\ ResponseSize(fragments) <= size
    /\ \A f \in Range(fragments) :
        /\ f.count \in 1 .. MaxSection
        /\ (IF f.area = "elements" THEN Bytes(f) ELSE 8 * Bytes(f)) <= MaxSection
        /\ f.start >= 0 /\ LastWireAddress(f) <= MaxAddress

(* Fields of a fragment.                                                   *)
LEMMA FieldsFit ==
    ASSUME NEW f \in Part, f.count # 0, Bytes(f) <= LengthLimit(f.area),
           LastWireAddress(f) <= MaxAddress
    PROVE  /\ f.count \in 1 .. MaxSection
           /\ (IF f.area = "elements" THEN Bytes(f) ELSE 8 * Bytes(f)) <= MaxSection
           /\ f.start >= 0 /\ LastWireAddress(f) <= MaxAddress
<1>1. f.count \in Nat /\ f.area \in Areas /\ f.start \in Nat
  BY DEF Part
<1>2. Bytes(f) \in Nat /\ Bytes(f) = f.count * ElementSize(f.area)
  BY <1>1, BytesTyped
<1>3. f.area = "elements" \/ f.area = "bytes"
  BY <1>1 DEF Areas
<1> DEFINE n == f.count
           b == Bytes(f)
<1>4. n \in Nat /\ n # 0 /\ b \in Nat /\ b = n * ElementSize(f.area) /\ b <= LengthLimit(f.area)
  BY <1>1, <1>2
<1> HIDE DEF n, b
<1>5. n <= MaxSection /\ (IF f.area = "elements" THEN b ELSE 8 * b) <= MaxSection
  BY <1>3, <1>4, Limits
<1>6. n \in 1 .. MaxSection
  <2>1. MaxSection \in Int
    BY Limits
  <2> QED BY <1>4, <1>5, <2>1
<1> QED BY <1>1, <1>5, <1>6 DEF n, b

(* A fragment ends at the end of its item at the latest.                   *)
LEMMA EndsInside ==
    ASSUME call \in Calls, NEW i \in 1 .. Len(Items), NEW at \in Nat, NEW n \in Nat,
           at + n * ElementSize(Items[i].area) <= Bytes(Items[i]), n # 0,
           Items[i].area = "elements" => n = Items[i].count,
           LastWireAddress(Items[i]) <= MaxAddress
    PROVE  LastWireAddress(Fragment(i, at, n)) <= MaxAddress
<1> DEFINE item == Items[i]
           f == Fragment(i, at, n)
<1>1. item \in ItemRecord /\ item.area \in Areas /\ item.start \in Nat /\ item.count \in Nat
  BY CallTyped DEF ItemRecord
<1>2. /\ f.area = item.area /\ f.start = item.start + at /\ f.count = n
      /\ Bytes(f) = n * ElementSize(item.area)
  <2>1. f = Fragment(i, at, n)
    OBVIOUS
  <2> HIDE DEF f
  <2> QED BY <2>1, FragmentIs
<1>3. Bytes(item) \in Nat /\ Bytes(item) = item.count * ElementSize(item.area)
  BY <1>1, BytesTyped
<1> DEFINE start == item.start
           count == item.count
           size  == n * ElementSize(item.area)
           whole == Bytes(item)
<1>4. CASE item.area = "elements"
  <2>1. n = count /\ whole = size /\ whole \in Nat
    BY <1>3, <1>4
  <2>2. at = 0
    <3>1. at + whole <= whole
      BY <2>1
    <3> HIDE DEF whole
    <3> QED BY <2>1, <3>1
  <2>3. /\ LastWireAddress(f) = (start + at) + (n - 1) * ElementSize(item.area)
        /\ LastWireAddress(item) = start + (count - 1) * ElementSize(item.area)
    BY <1>2, <1>4 DEF LastWireAddress
  <2>4. start + at = start
    BY <1>1, <2>2
  <2> HIDE DEF f, item, start, count
  <2>5. LastWireAddress(f) = LastWireAddress(item)
    BY <2>1, <2>3, <2>4
  <2> QED BY <2>5 DEF f, item
<1>5. CASE item.area = "bytes"
  <2>1. /\ LastWireAddress(f) = (start + at + size - 1) * 8
        /\ LastWireAddress(item) = (start + whole - 1) * 8
    <3>1. item.area # "elements"
      BY <1>5
    <3> QED BY <1>2, <3>1 DEF LastWireAddress
  <2>2. size \in Nat /\ start \in Nat /\ whole \in Nat /\ at + size <= whole
    BY <1>1, <1>3, <1>5, Limits
  <2>3. MaxAddress \in Int /\ LastWireAddress(item) <= MaxAddress
    BY Limits
  <2> HIDE DEF f, item, start, size, whole
  <2>4. LastWireAddress(f) <= LastWireAddress(item)
    BY <2>1, <2>2
  <2>5. LastWireAddress(f) \in Int /\ LastWireAddress(item) \in Int
    BY <2>1, <2>2
  <2>6. LastWireAddress(f) <= MaxAddress
    BY <2>3, <2>4, <2>5
  <2> QED BY <2>6 DEF f
<1>6. item.area = "elements" \/ item.area = "bytes"
  BY <1>1 DEF Areas
<1> QED BY <1>4, <1>5, <1>6

(* The data of fragments is no longer than the items they are, padded.     *)
LEMMA DataFits ==
    ASSUME NEW n \in Nat, n # 0, NEW f, NEW items,
           f \in [1 .. n -> Part], items \in [1 .. n -> ItemRecord],
           \A k \in 1 .. n : Bytes(f[k]) = Bytes(items[k])
    PROVE  /\ DataSize(f) \in Nat /\ Total(Paddeds(items)) \in Nat
           /\ DataSize(f) <= Total(Paddeds(items))
<1> DEFINE sizes  == [k \in 1 .. n |-> IF k = n THEN ItemHeader + Bytes(f[k]) ELSE Padded(f[k])]
           others == [k \in 1 .. n |-> Padded(items[k])]
<1>1. DataSize(f) = Total(sizes)
  <2>1. DOMAIN f = 1 .. n /\ Len(f) = n
    OBVIOUS
  <2> QED BY <2>1 DEF DataSize
<1>2. Total(Paddeds(items)) = Total(others)
  <2>1. DOMAIN items = 1 .. n
    OBVIOUS
  <2> QED BY <2>1 DEF Paddeds
<1>3. ASSUME NEW k \in 1 .. n
      PROVE  /\ ItemHeader + Bytes(f[k]) \in Nat /\ Padded(f[k]) \in Nat
             /\ Padded(items[k]) = Padded(f[k]) /\ ItemHeader + Bytes(f[k]) <= Padded(f[k])
  <2>1. f[k].area \in Areas /\ f[k].count \in Nat
    BY DEF Part
  <2>2. Padded(items[k]) = Padded(f[k])
    BY DEF Padded
  <2> QED BY <2>1, <2>2, BytesTyped
<1>4. sizes \in [1 .. n -> Nat] /\ others \in [1 .. n -> Nat]
  BY <1>3
<1>5. \A k \in 1 .. n : sizes[k] <= others[k]
  BY <1>3
<1> HIDE DEF sizes, others
<1>6. Total(sizes) <= Total(others)
  BY <1>4, <1>5, TotalAtMost
<1>7. Total(sizes) \in Nat /\ Total(others) \in Nat
  <2>1. sizes \in Seq(Nat) /\ others \in Seq(Nat)
    BY <1>4
  <2> QED BY <2>1, TotalTyped
<1> QED BY <1>1, <1>2, <1>6, <1>7

LEMMA BatchFits ==
    ASSUME TypesHold, \A i \in DOMAIN Items : ValidItem(Items[i]),
           Current <= Len(Items), Taken > 0, NEW f, f = Batch(Taken)
    PROVE  /\ f \in Seq(Part) /\ Len(f) = Taken /\ Fits(f, pduLength)
           /\ Mutates => \A x \in Range(f) : x.payload = Bytes(x)
<1> DEFINE n == Taken
           items == TakenItems(n)
           at(k) == Current + k - 1
           sum == Total(Paddeds(items))
<1>1. /\ Len(Items) \in Nat /\ Mutates \in BOOLEAN /\ DOMAIN Items = 1 .. Len(Items)
      /\ call \in Calls /\ Len(results) \in Nat /\ pduLength \in Nat
      /\ \A i \in 1 .. Len(Items) : Items[i] \in ItemRecord
  <2>1. call \in Calls /\ Len(results) \in Nat /\ pduLength \in 240 .. MaxSection
    BY DEF TypesHold
  <2>2. pduLength \in Nat
    BY <2>1, Limits
  <2> QED BY <2>1, <2>2, CallTyped
<1>2. Current \in 1 .. Len(Items) /\ Current \in Int
  BY <1>1 DEF Current
<1>3. /\ n \in 1 .. Len(Items) - Current + 1 /\ n <= 20
      /\ \A k \in 1 .. n :
            LET item == Items[at(k)]
            IN  /\ item.count # 0 /\ Bytes(item) <= LengthLimit(item.area)
                /\ Mutates => item.payload = Bytes(item)
      /\ 12 + 12 * n + (IF Mutates THEN sum ELSE 0) <= pduLength
      /\ 14 + (IF Mutates THEN n ELSE sum) <= pduLength
  BY TakenMeans
<1>4. n \in Nat /\ n # 0
  BY <1>1, <1>2, <1>3
<1> HIDE DEF n
<1>5. ASSUME NEW k \in 1 .. n
      PROVE  /\ at(k) \in 1 .. Len(Items) /\ Items[at(k)] \in ItemRecord
             /\ f[k] = Fragment(at(k), 0, Items[at(k)].count)
             /\ f[k] \in Part /\ Bytes(f[k]) = Bytes(Items[at(k)])
             /\ f[k].area = Items[at(k)].area /\ f[k].count = Items[at(k)].count
             /\ f[k].count # 0
             /\ Mutates => f[k].payload = Bytes(f[k])
             /\ LastWireAddress(f[k]) <= MaxAddress
  <2> DEFINE i == at(k)
  <2>1. i \in 1 .. Len(Items)
    BY <1>1, <1>2, <1>3
  <2>2. f[k] = Fragment(i, 0, Items[i].count)
    BY <1>4 DEF Batch, n
  <2>3. /\ Items[i].count # 0 /\ Bytes(Items[i]) <= LengthLimit(Items[i].area)
        /\ Mutates => Items[i].payload = Bytes(Items[i])
    BY <1>3
  <2> HIDE DEF i
  <2>4. /\ Items[i] \in ItemRecord /\ Items[i].count \in Nat /\ Items[i].area \in Areas
        /\ Items[i].payload \in Nat
    BY <1>1, <2>1 DEF ItemRecord
  <2>5. /\ f[k] \in Part /\ f[k].area = Items[i].area /\ f[k].count = Items[i].count
        /\ Bytes(f[k]) = Bytes(Items[i])
        /\ Items[i].payload = Bytes(f[k]) => f[k].payload = Bytes(f[k])
    <3> DEFINE g == f[k]
    <3>1. g = Fragment(i, 0, Items[i].count)
      BY <2>2
    <3> HIDE DEF g
    <3>2. /\ g \in Part /\ g.area = Items[i].area /\ g.count = Items[i].count
          /\ Bytes(g) = Bytes(Items[i])
          /\ Items[i].payload = Bytes(g) => g.payload = Bytes(g)
      BY <1>1, <2>1, <3>1, WholeItem
    <3> QED BY <3>2 DEF g
  <2>6. Bytes(Items[i]) = Items[i].count * ElementSize(Items[i].area) /\ Bytes(Items[i]) \in Nat
    BY <2>4, BytesTyped
  <2>7. Bytes(f[k]) = Bytes(Items[i])
    BY <2>5
  <2>8. Mutates => f[k].payload = Bytes(f[k])
    BY <2>3, <2>5
  <2>9. LastWireAddress(f[k]) <= MaxAddress
    <3>1. LastWireAddress(Items[i]) <= MaxAddress
      BY <1>1, <2>1, ValidMeans
    <3>2. 0 + Items[i].count * ElementSize(Items[i].area) <= Bytes(Items[i])
      BY <2>6
    <3>3. LastWireAddress(Fragment(i, 0, Items[i].count)) <= MaxAddress
      BY <1>1, <2>1, <2>3, <2>4, <3>1, <3>2, EndsInside
    <3> QED BY <2>2, <3>3
  <2> QED BY <2>1, <2>2, <2>3, <2>4, <2>5, <2>7, <2>8, <2>9 DEF i
<1>6. f \in [1 .. n -> Part] /\ f \in Seq(Part) /\ Len(f) = n
  <2>1. f = [k \in 1 .. n |-> Fragment(at(k), 0, Items[at(k)].count)]
    BY DEF Batch, n
  <2>2. \A k \in 1 .. n : f[k] \in Part
    BY <1>5
  <2>3. DOMAIN f = 1 .. n
    BY <2>1
  <2>4. f = [k \in 1 .. n |-> f[k]]
    BY <2>1
  <2>5. f \in [1 .. n -> Part]
    BY <2>2, <2>4
  <2> QED BY <1>4, <2>5
<1>7. items \in [1 .. n -> ItemRecord] /\ \A k \in 1 .. n : Bytes(f[k]) = Bytes(items[k])
  <2>1. \A k \in 1 .. n : items[k] = Items[at(k)]
    BY DEF TakenItems
  <2>2. items = [k \in 1 .. n |-> items[k]]
    BY DEF TakenItems
  <2> HIDE DEF items
  <2> QED BY <1>5, <2>1, <2>2
<1>8. DataSize(f) \in Nat /\ sum \in Nat /\ DataSize(f) <= sum
  <2> HIDE DEF items
  <2> QED BY <1>4, <1>6, <1>7, DataFits
<1>9. RequestSize(f) <= pduLength /\ ResponseSize(f) <= pduLength
  <2>1. /\ RequestSize(f) = 12 + 12 * n + (IF Mutates THEN DataSize(f) ELSE 0)
        /\ ResponseSize(f) = 14 + (IF Mutates THEN n ELSE DataSize(f))
    BY <1>6 DEF RequestSize, ResponseSize, JobHeader, AddressSize, ResponseHeader
  <2> HIDE DEF sum
  <2> QED BY <1>1, <1>3, <1>4, <1>8, <2>1
<1>10. \A x \in Range(f) : \E k \in 1 .. n : x = f[k]
  BY <1>6 DEF Range
<1>11. ASSUME NEW x \in Range(f)
       PROVE  /\ x.count \in 1 .. MaxSection
              /\ (IF x.area = "elements" THEN Bytes(x) ELSE 8 * Bytes(x)) <= MaxSection
              /\ x.start >= 0 /\ LastWireAddress(x) <= MaxAddress
              /\ Mutates => x.payload = Bytes(x)
  <2>1. PICK k \in 1 .. n : x = f[k]
    BY <1>10
  <2>2. x \in Part /\ x.count # 0 /\ LastWireAddress(x) <= MaxAddress /\ (Mutates => x.payload = Bytes(x))
    BY <1>5, <2>1
  <2>3. Bytes(x) <= LengthLimit(x.area)
    BY <1>3, <1>5, <2>1
  <2> QED BY <2>2, <2>3, FieldsFit
<1> QED BY <1>3, <1>6, <1>9, <1>11 DEF Fits, MaxItems, n

(* The first number of a list, and the others.                             *)
LEMMA FirstOfList ==
    ASSUME NEW S, S \subseteq Nat, NEW s \in Seq(S), s # <<>>
    PROVE  /\ Head(s) \in S /\ Head(s) \in Nat /\ Head(s) = s[1] /\ 1 \in DOMAIN s
           /\ Total(s) = Head(s) + Total(Tail(s)) /\ Total(Tail(s)) \in Nat
           /\ Tail(s) \in Seq(S)
           /\ \A k \in DOMAIN Tail(s) : k + 1 \in DOMAIN s /\ Tail(s)[k] = s[k + 1]
<1> DEFINE n == Len(s) - 1
           rest == [k \in 1 .. n |-> s[k + 1]]
<1>1. n \in Nat /\ Len(s) = n + 1 /\ DOMAIN s = 1 .. n + 1
  OBVIOUS
<1>2. \A k \in 1 .. n + 1 : s[k] \in S
  BY <1>1
<1>3. \A k \in 1 .. n + 1 : s[k] \in Nat
  BY <1>2
<1>4. s \in [1 .. n + 1 -> Nat]
  BY <1>1, <1>3
<1>5. Tail(s) = rest /\ Head(s) = s[1] /\ Tail(s) \in Seq(S) /\ 1 \in 1 .. n + 1
  <2>1. 1 \in 1 .. n + 1 /\ Head(s) = s[1]
    BY <1>1
  <2>2. Tail(s) = rest
    <3> DEFINE t == Tail(s)
    <3>1. t \in Seq(S) /\ Len(t) = n /\ \A k \in 1 .. n : t[k] = s[k + 1]
      BY <1>1, HeadTailProperties
    <3> HIDE DEF t, n
    <3>2. t = [k \in 1 .. n |-> t[k]]
      BY <3>1
    <3>3. t = [k \in 1 .. n |-> s[k + 1]]
      BY <3>1, <3>2
    <3> QED BY <3>3 DEF t, n
  <2>3. \A k \in 1 .. n : rest[k] \in S
    BY <1>1, <1>2
  <2>4. rest \in Seq(S)
    BY <1>1, <2>3
  <2> QED BY <2>1, <2>2, <2>4
<1>6. Total(s) = s[1] + Total(rest) /\ Total(rest) \in Nat
  <2> HIDE DEF n, rest
  <2>1. rest = [k \in 1 .. n |-> s[k + 1]]
    BY DEF rest
  <2> QED BY <1>1, <1>4, <2>1, TotalRest
<1>7. \A k \in DOMAIN Tail(s) : k + 1 \in DOMAIN s /\ Tail(s)[k] = s[k + 1]
  BY <1>1, <1>5
<1>8. s[1] \in S /\ s[1] \in Nat
  BY <1>2, <1>3, <1>5
<1>9. Total(s) = s[1] + Total(Tail(s)) /\ Total(Tail(s)) \in Nat
  BY <1>5, <1>6
<1> HIDE DEF n, rest
<1> QED BY <1>1, <1>5, <1>7, <1>8, <1>9

(* A chunk ends inside its item.                                           *)
LEMMA HeadOfChunks ==
    ASSUME NEW S, S \subseteq Nat, NEW s \in Seq(S), s # <<>>, NEW size \in {1, 2},
           NEW at \in Nat, NEW whole \in Nat, at + Total(s) * size = whole
    PROVE  /\ at + Head(s) * size <= whole
           /\ (at + Head(s) * size) + Total(Tail(s)) * size = whole
<1> DEFINE h == Head(s)
           t == Total(Tail(s))
<1>1. h \in Nat /\ t \in Nat /\ Total(s) = h + t
  BY FirstOfList
<1>2. at + (h + t) * size = whole
  BY <1>1
<1> HIDE DEF h, t
<1>3. at + h * size <= whole /\ (at + h * size) + t * size = whole
  <2>1. CASE size = 1
    BY <1>1, <1>2, <2>1
  <2>2. CASE size = 2
    BY <1>1, <1>2, <2>2
  <2> QED BY <2>1, <2>2
<1> QED BY <1>3 DEF h, t

LEMMA ChunkFits ==
    ASSUME TypesHold, \A i \in DOMAIN Items : ValidItem(Items[i]), chunks # <<>>,
           Current <= Len(Items),
           offset + Total(chunks) * ElementSize(Items[Current].area) = Bytes(Items[Current]),
           Admissible(Items[Current].area, chunks[1]),
           Items[Current].area = "elements" => chunks = <<Items[Current].count>>,
           NEW g, g = Fragment(Current, offset, Head(chunks))
    PROVE  /\ g \in Part /\ <<g>> \in Seq(Part) /\ Fits(<<g>>, pduLength)
           /\ Mutates => \A x \in Range(<<g>>) : x.payload = Bytes(x)
<1> DEFINE n == Head(chunks)
           i == Current
           item == Items[i]
           size == ElementSize(item.area)
<1>1. /\ call \in Calls /\ Len(results) \in Nat /\ pduLength \in 240 .. MaxSection
      /\ offset \in Nat /\ chunks \in Seq(1 .. MaxSection)
  BY DEF TypesHold, TypeOK
<1>2. Len(Items) \in Nat /\ DOMAIN Items = 1 .. Len(Items) /\ Mutates \in BOOLEAN
  BY <1>1, CallTyped
<1>3. i \in 1 .. Len(Items)
  BY <1>1, <1>2 DEF Current
<1> HIDE DEF i
<1>4. item \in ItemRecord /\ item.area \in Areas /\ item.count \in Nat /\ item.payload \in Nat
  BY <1>1, <1>3, CallTyped DEF ItemRecord
<1>5. Bytes(item) \in Nat /\ Bytes(item) = item.count * size
  BY <1>4, BytesTyped
<1>6. size \in {1, 2}
  <2>1. item.area = "elements" \/ item.area = "bytes"
    BY <1>4 DEF Areas
  <2> QED BY <2>1, Limits
<1>7. offset + Total(chunks) * size = Bytes(item)
  BY DEF i
<1>8. n \in 1 .. MaxSection /\ n \in Nat /\ n = chunks[1] /\ offset + n * size <= Bytes(item)
  <2> DEFINE S == 1 .. MaxSection
             whole == Bytes(item)
  <2>1. S \subseteq Nat /\ chunks \in Seq(S)
    BY <1>1, MaxSectionIs
  <2>2. whole \in Nat /\ offset + Total(chunks) * size = whole /\ offset \in Nat
    BY <1>1, <1>5, <1>7
  <2> HIDE DEF S, whole, item, size
  <2>3. Head(chunks) \in S /\ Head(chunks) \in Nat /\ Head(chunks) = chunks[1]
    BY <2>1, FirstOfList
  <2>4. offset + Head(chunks) * size <= whole
    BY <1>6, <2>1, <2>2, HeadOfChunks
  <2> QED BY <2>3, <2>4 DEF S, whole
<1>9. n # 0
  BY <1>8, MaxSectionIs
<1>10. item.area = "elements" => n = item.count
  BY <1>8 DEF i
<1>11. /\ LastWireAddress(item) <= MaxAddress
       /\ Mutates => item.payload = Bytes(item)
  BY <1>2, <1>3, ValidMeans
<1>12. g = Fragment(i, offset, n)
  BY DEF i
<1> HIDE DEF n
<1>13. /\ g \in Part /\ g.area = item.area /\ g.count = n /\ Bytes(g) = n * size
       /\ item.payload >= offset + Bytes(g) => g.payload = Bytes(g)
  BY <1>1, <1>3, <1>8, <1>12, FragmentIs
<1>14. LastWireAddress(g) <= MaxAddress
  <2>1. LastWireAddress(Fragment(i, offset, n)) <= MaxAddress
    BY <1>1, <1>3, <1>8, <1>9, <1>10, <1>11, EndsInside
  <2> QED BY <1>12, <2>1
<1>15. Bytes(g) + Overhead <= pduLength /\ Bytes(g) <= LengthLimit(g.area) /\ Bytes(g) \in Nat
  <2>1. Admissible(item.area, n)
    BY <1>8 DEF i
  <2>2. n * size + Overhead <= pduLength /\ n * size <= LengthLimit(item.area)
    BY <2>1 DEF Admissible
  <2>3. Bytes(g) \in Nat
    <3>1. g.area \in Areas /\ g.count \in Nat
      BY <1>4, <1>8, <1>13
    <3> QED BY <3>1, BytesTyped
  <2> QED BY <1>13, <2>2, <2>3
<1>16. Mutates => g.payload = Bytes(g)
  <2> SUFFICES ASSUME Mutates PROVE item.payload >= offset + Bytes(g)
    BY <1>13
  <2> QED BY <1>1, <1>5, <1>8, <1>11, <1>13
<1>17. DataSize(<<g>>) = 4 + Bytes(g)
  <2>1. DataSize(<<g>>) = Total([k \in 1 .. 1 |-> 4 + Bytes(g)])
    <3>1. DOMAIN <<g>> = 1 .. 1 /\ Len(<<g>>) = 1 /\ \A k \in 1 .. 1 : k = 1
      OBVIOUS
    <3>2. [k \in DOMAIN <<g>> |->
              IF k = Len(<<g>>) THEN ItemHeader + Bytes(<<g>>[k]) ELSE Padded(<<g>>[k])]
            = [k \in 1 .. 1 |-> 4 + Bytes(g)]
      BY <3>1 DEF ItemHeader
    <3> QED BY <3>2 DEF DataSize
  <2>2. 4 + Bytes(g) \in Nat
    BY <1>15
  <2>3. Total([k \in 1 .. 1 |-> 4 + Bytes(g)]) = 1 * (4 + Bytes(g))
    BY <2>2, TotalEqual
  <2>4. 1 * (4 + Bytes(g)) = 4 + Bytes(g)
    BY <2>2
  <2> QED BY <2>1, <2>3, <2>4
<1>18. RequestSize(<<g>>) <= pduLength /\ ResponseSize(<<g>>) <= pduLength /\ Len(<<g>>) <= MaxItems
  <2> DEFINE b == Bytes(g)
  <2>1. Len(<<g>>) = 1
    OBVIOUS
  <2>2. /\ RequestSize(<<g>>) = 12 + 12 * 1 + (IF Mutates THEN 4 + b ELSE 0)
        /\ ResponseSize(<<g>>) = 14 + (IF Mutates THEN 1 ELSE 4 + b)
    BY <1>17, <2>1 DEF RequestSize, ResponseSize, JobHeader, AddressSize, ResponseHeader
  <2>3. b + (IF Mutates THEN 28 ELSE 18) <= pduLength /\ b \in Nat
    BY <1>15 DEF Overhead
  <2>4. pduLength \in Nat /\ pduLength >= 240
    BY <1>1, MaxSectionIs
  <2> HIDE DEF b
  <2> QED BY <2>1, <2>2, <2>3, <2>4 DEF MaxItems
<1>19. \A x \in Range(<<g>>) : x = g
  BY DEF Range
<1>20. /\ g.count \in 1 .. MaxSection
       /\ (IF g.area = "elements" THEN Bytes(g) ELSE 8 * Bytes(g)) <= MaxSection
       /\ g.start >= 0 /\ LastWireAddress(g) <= MaxAddress
  BY <1>9, <1>13, <1>14, <1>15, FieldsFit
<1>21. Fits(<<g>>, pduLength)
  BY <1>18, <1>19, <1>20 DEF Fits
<1> QED BY <1>13, <1>16, <1>19, <1>21

-----------------------------------------------------------------------------
(* Steps                                                                   *)

LEMMA SameCall ==
    ASSUME call' = call
    PROVE  Items' = Items /\ Mutates' = Mutates /\ Multi' = Multi
BY DEF Items, Mutates, Multi

(* Requests that are not added to still fit, and are the same fragments.   *)
LEMMA SameRequests ==
    ASSUME call' = call, requests' = requests, RequestsFit
    PROVE  RequestsFit' /\ Fragments' = Fragments
<1>1. Mutates' = Mutates
  BY SameCall
<1>2. RequestsFit'
  BY <1>1 DEF RequestsFit, RequestSize, ResponseSize
<1>3. Fragments' = Fragments
  BY DEF Fragments
<1> QED BY <1>2, <1>3

LEMMA FragmentsTyped ==
    ASSUME requests \in Seq(RequestRecord)
    PROVE  Fragments \in Seq(Part)
<1> DEFINE n == Len(requests)
           parts == [i \in 1 .. n |-> requests[i].fragments]
<1>1. n \in Nat /\ \A i \in 1 .. n : requests[i].fragments \in Seq(Part)
  <2>1. n \in Nat /\ \A i \in 1 .. n : requests[i] \in RequestRecord
    OBVIOUS
  <2> QED BY <2>1 DEF RequestRecord
<1>2. parts \in [1 .. n -> Seq(Part)]
  BY <1>1
<1>3. Fragments = FlattenSeq(parts)
  BY DEF Fragments
<1> HIDE DEF parts, n
<1> QED BY <1>1, <1>2, <1>3, FlattenTyped

(* One more request.                                                       *)
LEMMA FragmentsGrow ==
    ASSUME requests \in Seq(RequestRecord), pduLength \in 240 .. MaxSection,
           NEW f \in Seq(Part),
           requests' = Append(requests, [fragments |-> f, pduLength |-> pduLength])
    PROVE  /\ requests' \in Seq(RequestRecord) /\ Fragments' = Fragments \o f
           /\ \A x \in Range(requests') :
                 x = [fragments |-> f, pduLength |-> pduLength] \/ x \in Range(requests)
<1> DEFINE r == [fragments |-> f, pduLength |-> pduLength]
           n == Len(requests)
<1>1. r \in RequestRecord /\ r.fragments = f /\ r.pduLength = pduLength
  <2> DEFINE sizes == 240 .. MaxSection
  <2>1. pduLength \in sizes
    OBVIOUS
  <2> HIDE DEF sizes
  <2>2. r \in [fragments : Seq(Part), pduLength : sizes]
    BY <2>1
  <2> QED BY <2>2 DEF RequestRecord, sizes
<1> HIDE DEF r
<1>2. /\ requests' \in Seq(RequestRecord) /\ n \in Nat /\ Len(requests') = n + 1
      /\ DOMAIN requests = 1 .. n /\ DOMAIN requests' = 1 .. n + 1
      /\ requests'[n + 1] = r /\ \A i \in 1 .. n : requests'[i] = requests[i]
  <2>1. requests' = Append(requests, r)
    BY DEF r
  <2> QED BY <1>1, <2>1, AppendProperties
<1>3. \A x \in Range(requests') : x = r \/ x \in Range(requests)
  <2>1. ASSUME NEW x \in Range(requests') PROVE x = r \/ x \in Range(requests)
    <3>1. PICK i \in 1 .. n + 1 : x = requests'[i]
      BY <1>2 DEF Range
    <3>2. CASE i = n + 1
      BY <1>2, <3>1, <3>2
    <3>3. CASE i # n + 1
      <4>1. i \in 1 .. n /\ i \in DOMAIN requests
        BY <1>2, <3>3
      <4> QED BY <1>2, <3>1, <4>1 DEF Range
    <3> QED BY <3>2, <3>3
  <2> QED BY <2>1
<1> DEFINE parts == [i \in 1 .. n + 1 |-> (requests'[i]).fragments]
           fewer == [i \in 1 .. n |-> parts[i]]
<1>4. parts \in [1 .. n + 1 -> Seq(Part)] /\ parts[n + 1] = f
  <2>1. \A i \in 1 .. n + 1 : requests'[i] \in RequestRecord
    BY <1>2
  <2>2. \A i \in 1 .. n + 1 : (requests'[i]).fragments \in Seq(Part)
    BY <2>1 DEF RequestRecord
  <2>3. n + 1 \in 1 .. n + 1
    BY <1>2
  <2> QED BY <1>1, <1>2, <2>2, <2>3
<1>5. Fragments' = FlattenSeq(parts)
  BY <1>2 DEF Fragments
<1>6. Fragments = FlattenSeq(fewer)
  <2>1. fewer = [i \in DOMAIN requests |-> requests[i].fragments]
    BY <1>2
  <2> HIDE DEF fewer
  <2> QED BY <2>1 DEF Fragments
<1>7. FlattenSeq(parts) = FlattenSeq(fewer) \o parts[n + 1]
  <2>1. fewer = [i \in 1 .. n |-> parts[i]]
    OBVIOUS
  <2> HIDE DEF parts, fewer
  <2> QED BY <1>2, <1>4, <2>1, FlattenOneMore
<1> HIDE DEF parts, fewer
<1> QED BY <1>2, <1>3, <1>4, <1>5, <1>6, <1>7 DEF r

LEMMA MoreRequests ==
    ASSUME requests \in Seq(RequestRecord), pduLength \in 240 .. MaxSection, call' = call,
           NEW f \in Seq(Part), Fits(f, pduLength), RequestsFit,
           requests' = Append(requests, [fragments |-> f, pduLength |-> pduLength])
    PROVE  /\ requests' \in Seq(RequestRecord) /\ RequestsFit'
           /\ Fragments' = Fragments \o f
<1> DEFINE r == [fragments |-> f, pduLength |-> pduLength]
<1>1. r.fragments = f /\ r.pduLength = pduLength
  OBVIOUS
<1>2. \A x \in Range(requests') : x = r \/ x \in Range(requests)
  BY FragmentsGrow
<1> HIDE DEF r
<1>3. RequestsFit'
  <2>1. Mutates' = Mutates
    BY SameCall
  <2>2. \A x \in Range(requests) : Fits(x.fragments, x.pduLength)
    BY DEF RequestsFit, Fits
  <2>3. \A x \in Range(requests') : Fits(x.fragments, x.pduLength)
    BY <1>1, <1>2, <2>2
  <2>4. \A x \in Range(requests') :
           /\ Len(x.fragments) <= MaxItems
           /\ RequestSize(x.fragments) <= x.pduLength /\ ResponseSize(x.fragments) <= x.pduLength
           /\ \A g \in Range(x.fragments) :
               /\ g.count \in 1 .. MaxSection
               /\ (IF g.area = "elements" THEN Bytes(g) ELSE 8 * Bytes(g)) <= MaxSection
               /\ g.start >= 0 /\ LastWireAddress(g) <= MaxAddress
    BY <2>3 DEF Fits
  <2> QED BY <2>1, <2>4 DEF RequestsFit, RequestSize, ResponseSize
<1> QED BY <1>3, FragmentsGrow

(* Fragments in order, followed by fragments in order.                     *)
LEMMA OrderGoesOn ==
    ASSUME NEW F \in Seq(Part), NEW f \in Seq(Part), f # <<>>, InOrder(F), InOrder(f),
           LastOf(F) \in {f[1].item, f[1].item - 1}
    PROVE  InOrder(F \o f) /\ LastOf(F \o f) = f[Len(f)].item
<1> DEFINE both == F \o f
<1>1. /\ Len(F) \in Nat /\ Len(f) \in Nat \ {0} /\ Len(both) = Len(F) + Len(f)
      /\ DOMAIN both = 1 .. Len(F) + Len(f)
      /\ \A i \in 1 .. Len(F) : both[i] = F[i]
      /\ \A i \in Len(F) + 1 .. Len(F) + Len(f) : both[i] = f[i - Len(F)]
      /\ both # <<>>
  OBVIOUS
<1>2. both[Len(both)] = f[Len(f)]
  <2>1. Len(both) \in Len(F) + 1 .. Len(F) + Len(f) /\ Len(both) - Len(F) = Len(f)
    BY <1>1
  <2> QED BY <1>1, <2>1
<1> HIDE DEF both
<1>3. ASSUME NEW j \in DOMAIN both, j > 1
      PROVE  both[j - 1].item \in {both[j].item, both[j].item - 1}
  <2>1. CASE j <= Len(F)
    <3>1. j \in DOMAIN F /\ j \in 1 .. Len(F) /\ j - 1 \in 1 .. Len(F)
      BY <1>1, <1>3, <2>1
    <3> QED BY <1>1, <1>3, <3>1 DEF InOrder
  <2>2. CASE j = Len(F) + 1
    <3>1. /\ j - 1 \in 1 .. Len(F) /\ j - 1 = Len(F) /\ j - Len(F) = 1 /\ F # <<>>
          /\ j \in Len(F) + 1 .. Len(F) + Len(f)
      BY <1>1, <1>3, <2>2
    <3>2. both[j - 1] = F[Len(F)] /\ both[j] = f[1]
      BY <1>1, <3>1
    <3>3. LastOf(F) = F[Len(F)].item
      BY <3>1 DEF LastOf
    <3> QED BY <3>2, <3>3
  <2>3. CASE j > Len(F) + 1
    <3> DEFINE k == j - Len(F)
    <3>1. /\ j \in Len(F) + 1 .. Len(F) + Len(f) /\ j - 1 \in Len(F) + 1 .. Len(F) + Len(f)
          /\ k \in DOMAIN f /\ k > 1 /\ (j - 1) - Len(F) = k - 1
      BY <1>1, <1>3, <2>3
    <3>2. both[j] = f[k] /\ both[j - 1] = f[k - 1]
      BY <1>1, <3>1
    <3> HIDE DEF k
    <3> QED BY <3>1, <3>2 DEF InOrder
  <2> QED BY <1>1, <2>1, <2>2, <2>3
<1> QED BY <1>1, <1>2, <1>3 DEF InOrder, LastOf, both

(* A longer PDU never makes an item or a chunk too long.                   *)
LEMMA StaysValid ==
    ASSUME call \in Calls, call' = call, AllValid, pduLength \in 240 .. MaxSection,
           pduLength' \in 240 .. MaxSection, pduLength <= pduLength'
    PROVE  AllValid'
<1>1. Items' = Items /\ Mutates' = Mutates /\ Mutates \in BOOLEAN
  BY SameCall, CallTyped
<1>2. ASSUME NEW i \in DOMAIN Items PROVE ValidItem(Items[i])'
  <2> DEFINE item == Items[i]
             size == pduLength'
  <2>1. item \in ItemRecord /\ item.area \in Areas /\ item.count \in Nat
    BY CallTyped DEF ItemRecord
  <2>2. /\ ValidRange(item) /\ FitsOneRequest(Mutates, pduLength, item)
        /\ Mutates => PayloadMatches(item)
    BY Zenon DEF AllValid, ValidItem
  <2>3. item' = item
    BY <1>1
  <2>4. pduLength \in Nat /\ size \in Nat /\ size >= pduLength /\ size \in 240 .. MaxSection
    BY MaxSectionIs
  <2> HIDE DEF item, size
  <2>5. ASSUME item.area = "elements" PROVE item.count <= Maximum(Mutates, size, item.area)
    <3> DEFINE bytes == item.count * ElementSize(item.area)
    <3>1. item.count <= Maximum(Mutates, pduLength, item.area)
      BY <2>2, <2>5, Zenon DEF FitsOneRequest
    <3>2. bytes + OverheadOf(Mutates) <= pduLength /\ bytes <= LengthLimit(item.area)
      BY <1>1, <2>1, <3>1, MaximumMeans, Zenon
    <3>3. bytes \in Nat /\ OverheadOf(Mutates) \in Nat
      <4> DEFINE count == item.count
      <4>1. count \in Nat /\ ElementSize(item.area) = 2
        <5>1. ElementSize("elements") = 2
          BY Zenon DEF ElementSize
        <5> QED BY <2>1, <2>5, <5>1, Zenon DEF count
      <4> HIDE DEF count
      <4>2. count * 2 \in Nat
        BY <4>1
      <4>3. OverheadOf(Mutates) \in Nat
        BY DEF OverheadOf
      <4> QED BY <4>1, <4>2, <4>3, Zenon DEF count
    <3>4. bytes + OverheadOf(Mutates) <= size
      <4> HIDE DEF bytes
      <4> QED BY <2>4, <3>2, <3>3
    <3> QED BY <1>1, <2>1, <2>4, <3>2, <3>4, MaximumMeans, Zenon
  <2>6. FitsOneRequest(Mutates, size, item)
    BY <2>5, Zenon DEF FitsOneRequest
  <2>7. Maximum(TRUE, size, item.area) # 0
    <3>1. Maximum(TRUE, size, item.area) \in 1 .. MaxSection
      BY <2>1, <2>4, MaximumMeans, Zenon
    <3> QED BY <3>1, MaxSectionIs
  <2>8. Items'[i] = item /\ pduLength' = size /\ Mutates' = Mutates
    BY <1>1 DEF item, size
  <2> QED BY <2>2, <2>6, <2>7, <2>8, Zenon DEF ValidItem
<1> QED BY <1>1, <1>2 DEF AllValid

Errors == {"none", "invalidInput", "plcRejected", "protocol", "disconnected", "timeout"}

(* How an operation may end.                                               *)
LEMMA Ends ==
    ASSUME CoreInv, pc' = "done", error' \in Errors, closed' \in BOOLEAN,
           UNCHANGED <<call, pduLength, retries, chunks, offset, batch, results, requests>>,
           progress' \in [history : Seq(Attempt), pending : Seq(Part)],
           error' = "invalidInput" => requests = <<>> /\ ~closed',
           Mutates => /\ progress'.pending \in {<<>>, batch}
                      /\ progress'.pending # <<>> => error' \in {"protocol", "disconnected", "timeout"}
    PROVE  CoreInv'
<1>1. Items' = Items /\ Mutates' = Mutates
  BY SameCall
<1>2. TypesHold'
  BY DEF CoreInv, TypesHold, TypeOK, Errors
<1>3. PhaseHolds'
  BY <1>1 DEF CoreInv, PhaseHolds, Exchanging
<1>4. ChunksHold' /\ BatchHolds'
  BY DEF ChunksHold, BatchHolds, Chunked, Batched, Exchanging
<1>5. PendingHolds'
  BY <1>1 DEF PendingHolds, Lost
<1>6. RequestsFit' /\ Fragments' = Fragments
  BY SameRequests DEF CoreInv
<1>7. OrderHolds'
  BY <1>6 DEF CoreInv, OrderHolds, InOrder, Exchanging
<1> QED BY <1>2, <1>3, <1>4, <1>5, <1>6, <1>7 DEF CoreInv

(* An attempt that settles keeps the record typed.                         *)
LEMMA SettledTyped ==
    ASSUME progress \in [history : Seq(Attempt), pending : Seq(Part)], NEW outcomes,
           \A i \in DOMAIN progress.pending : outcomes[i] \in KnownOutcomes
    PROVE  /\ Settled(progress, outcomes) \in [history : Seq(Attempt), pending : Seq(Part)]
           /\ Settled(progress, outcomes).pending = <<>>
<1> DEFINE added == [i \in DOMAIN progress.pending |->
                       [location |-> progress.pending[i], outcome |-> outcomes[i]]]
<1>1. progress.pending \in Seq(Part) /\ progress.history \in Seq(Attempt)
  OBVIOUS
<1>2. \A i \in DOMAIN progress.pending :
         [location |-> progress.pending[i], outcome |-> outcomes[i]] \in Attempt
  BY <1>1 DEF Attempt
<1>3. added \in Seq(Attempt)
  <2>1. Len(progress.pending) \in Nat /\ DOMAIN progress.pending = 1 .. Len(progress.pending)
    BY <1>1
  <2> QED BY <1>2, <2>1
<1>4. Settled(progress, outcomes) = [history |-> progress.history \o added, pending |-> <<>>]
  BY DEF Settled
<1> HIDE DEF added
<1>5. progress.history \o added \in Seq(Attempt)
  BY <1>1, <1>3
<1> QED BY <1>4, <1>5

LEMMA FinishTyped ==
    ASSUME progress \in [history : Seq(Attempt), pending : Seq(Part)], NEW outcome \in KnownOutcomes
    PROVE  /\ Finish(progress, outcome) \in [history : Seq(Attempt), pending : Seq(Part)]
           /\ Finish(progress, outcome).pending = <<>>
<1> DEFINE outcomes == [i \in DOMAIN progress.pending |-> outcome]
<1>1. Finish(progress, outcome) = Settled(progress, outcomes)
  BY DEF Finish
<1>2. \A i \in DOMAIN progress.pending : outcomes[i] \in KnownOutcomes
  OBVIOUS
<1> HIDE DEF outcomes
<1> QED BY <1>1, <1>2, SettledTyped

LEMMA FailEnds ==
    ASSUME CoreInv, Exchanging, NEW kind \in {"plcRejected", "protocol", "disconnected", "timeout"},
           Fail(kind)
    PROVE  CoreInv'
<1>1. /\ pc' = "done" /\ error' = kind /\ closed' = Closes(kind)
      /\ progress' = IF Mutates /\ kind = "plcRejected" THEN GlobalReject(progress) ELSE progress
      /\ UNCHANGED <<call, pduLength, retries, chunks, offset, batch, results, requests>>
  BY DEF Fail
<1>2. /\ call \in Calls /\ progress \in [history : Seq(Attempt), pending : Seq(Part)]
      /\ error' \in Errors /\ error' # "invalidInput"
  BY <1>1 DEF CoreInv, TypesHold, Errors
<1>3. closed' \in BOOLEAN
  <2>1. ~Multi \/ (Multi /\ call.kind = "writeMulti") \/ (Multi /\ call.kind = "readMulti")
    BY DEF Multi
  <2>2. \/ Closes(kind) = (kind \notin {"invalidInput", "plcRejected"})
        \/ Closes(kind) = (kind # "invalidInput")
        \/ Closes(kind) = TRUE
    BY <2>1 DEF Closes, Multi
  <2> QED BY <1>1, <2>2, Zenon
<1>4. /\ progress' \in [history : Seq(Attempt), pending : Seq(Part)]
      /\ kind = "plcRejected" /\ Mutates => progress'.pending = <<>>
      /\ ~(kind = "plcRejected" /\ Mutates) => progress' = progress
  <2>1. "globalRejected" \in KnownOutcomes
    BY DEF KnownOutcomes
  <2>2. /\ GlobalReject(progress) \in [history : Seq(Attempt), pending : Seq(Part)]
        /\ GlobalReject(progress).pending = <<>>
    BY <1>2, <2>1, FinishTyped DEF GlobalReject
  <2>3. CASE kind = "plcRejected" /\ Mutates
    <3>1. progress' = GlobalReject(progress)
      BY <1>1, <2>3
    <3> QED BY <2>2, <2>3, <3>1
  <2>4. CASE ~(kind = "plcRejected" /\ Mutates)
    <3>1. progress' = progress
      BY <1>1, <2>4
    <3> QED BY <1>2, <2>4, <3>1
  <2> QED BY <2>3, <2>4
<1>5. Mutates => progress.pending \in {<<>>, batch}
  BY DEF CoreInv, PendingHolds
<1>6. Mutates => /\ progress'.pending \in {<<>>, batch}
                 /\ progress'.pending # <<>> => error' \in {"protocol", "disconnected", "timeout"}
  BY <1>1, <1>4, <1>5
<1> QED BY <1>1, <1>2, <1>3, <1>4, <1>6, Ends

LEMMA ValidateKeeps == ASSUME CoreInv, Validate PROVE CoreInv'
<1>1. /\ pc = "validate" /\ error = "none" /\ ~closed /\ closed \in BOOLEAN /\ chunks = <<>>
      /\ requests = <<>> /\ results = <<>>
      /\ progress \in [history : Seq(Attempt), pending : Seq(Part)]
      /\ Mutates => progress.pending = <<>>
  BY DEF CoreInv, Validate, PhaseHolds, TypesHold, TypeOK, PendingHolds
<1>2. UNCHANGED <<call, pduLength, retries, chunks, offset, batch, results, progress, requests, closed>>
  BY DEF Validate
<1>3. CASE pc' = "done" /\ error' \in Errors
  <2>1. CoreInv'
    BY <1>1, <1>2, <1>3, Ends
  <2> QED BY <2>1
<1>4. CASE pc' = "plan" /\ error' = error /\ AllValid
  <2>1. Items' = Items /\ Mutates' = Mutates
    BY <1>2, SameCall
  <2>2. TypesHold'
    BY <1>2, <1>4 DEF CoreInv, TypesHold, TypeOK
  <2>3. AllValid'
    <3>1. pduLength \in 240 .. MaxSection /\ call \in Calls
      BY DEF CoreInv, TypesHold
    <3>2. pduLength <= pduLength' /\ pduLength' \in 240 .. MaxSection
      <4>1. pduLength \in Nat
        BY <3>1, MaxSectionIs
      <4> HIDE DEF AllValid
      <4> QED BY <1>2, <3>1, <4>1
    <3> QED BY <1>2, <1>4, <3>1, <3>2, StaysValid
  <2>4. PhaseHolds'
    BY <1>1, <1>2, <1>4, <2>1, <2>3 DEF CoreInv, PhaseHolds, Exchanging
  <2>5. ChunksHold' /\ BatchHolds'
    BY <1>4 DEF ChunksHold, BatchHolds, Chunked, Batched, Exchanging
  <2>6. PendingHolds'
    BY <1>1, <1>2, <1>4, <2>1 DEF PendingHolds
  <2>7. RequestsFit' /\ Fragments' = Fragments
    BY <1>2, SameRequests DEF CoreInv
  <2>8. OrderHolds'
    BY <1>1, <1>2, <1>4, <2>7 DEF CoreInv, OrderHolds, InOrder, Exchanging, LastItem, LastOf
  <2> QED BY <2>2, <2>4, <2>5, <2>6, <2>7, <2>8 DEF CoreInv
<1>5. (pc' = "done" /\ error' \in Errors) \/ (pc' = "plan" /\ error' = error /\ AllValid)
  BY <1>1 DEF Validate, Errors, AllValid
<1> QED BY <1>3, <1>4, <1>5

LEMMA AllCompleteKeeps == ASSUME CoreInv, AllComplete PROVE CoreInv'
<1>1. /\ pc = "plan" /\ error = "none" /\ closed \in BOOLEAN
      /\ progress \in [history : Seq(Attempt), pending : Seq(Part)]
      /\ Mutates => progress.pending = <<>>
  BY DEF CoreInv, AllComplete, PhaseHolds, TypesHold, TypeOK, PendingHolds
<1>2. /\ pc' = "done" /\ error' \in Errors /\ error' # "invalidInput"
      /\ UNCHANGED <<call, pduLength, retries, chunks, offset, batch, results, requests,
                     progress, closed>>
  BY <1>1 DEF AllComplete, Errors
<1> QED BY <1>1, <1>2, Ends

(* A request that fits is sent.                                            *)
LEMMA RequestSends ==
    ASSUME NEW f, Request(f), Fits(f, pduLength), Mutates => \A x \in Range(f) : x.payload = Bytes(x)
    PROVE  /\ batch' = f /\ pc' = "send"
           /\ requests' = Append(requests, [fragments |-> f, pduLength |-> pduLength])
           /\ UNCHANGED <<call, pduLength, retries, chunks, offset, results, progress, error,
                          closed>>
<1> DEFINE fits == /\ Mutates => \A x \in Range(f) : x.payload = Bytes(x)
                   /\ RequestSize(f) <= pduLength
                   /\ call.kind = "readArea" => ResponseSize(f) <= pduLength
<1>1. fits
  BY DEF Fits
<1> HIDE DEF fits
<1>2. \/ ~fits
      \/ /\ batch' = f
         /\ requests' = Append(requests, [fragments |-> f, pduLength |-> pduLength])
         /\ pc' = "send"
         /\ UNCHANGED <<call, pduLength, retries, chunks, offset, results, progress, error, closed>>
  BY Zenon DEF Request, fits
<1> QED BY <1>1, <1>2

(* What is sent next goes on where the requests before it ended.           *)
LEMMA RequestKeeps ==
    ASSUME CoreInv, pc \in {"plan", "chunk"}, NEW f \in Seq(Part), f # <<>>,
           Request(f), Fits(f, pduLength), Mutates => \A x \in Range(f) : x.payload = Bytes(x),
           InOrder(f), LastItem \in {f[1].item, f[1].item - 1},
           ChunksHold', BatchHolds'
    PROVE  CoreInv'
<1>1. /\ batch' = f /\ pc' = "send"
      /\ requests' = Append(requests, [fragments |-> f, pduLength |-> pduLength])
      /\ UNCHANGED <<call, pduLength, retries, chunks, offset, results, progress, error, closed>>
  BY RequestSends
<1>2. Items' = Items /\ Mutates' = Mutates
  BY <1>1, SameCall
<1>3. /\ requests \in Seq(RequestRecord) /\ pduLength \in 240 .. MaxSection /\ call \in Calls
      /\ RequestsFit
  BY DEF CoreInv, TypesHold
<1>4. requests' \in Seq(RequestRecord) /\ RequestsFit' /\ Fragments' = Fragments \o f
  BY <1>1, <1>3, MoreRequests
<1>5. TypesHold'
  BY <1>1, <1>4 DEF CoreInv, TypesHold, TypeOK
<1>6. AllValid /\ error = "none" /\ ~closed
  BY DEF CoreInv, PhaseHolds
<1>7. AllValid'
  <2>1. pduLength <= pduLength' /\ pduLength' \in 240 .. MaxSection
    <3>1. pduLength \in Nat
      BY <1>3, MaxSectionIs
    <3> QED BY <1>1, <1>3, <3>1
  <2> QED BY <1>1, <1>3, <1>6, <2>1, StaysValid
<1>8. PhaseHolds'
  BY <1>1, <1>2, <1>6, <1>7 DEF CoreInv, PhaseHolds, Exchanging
<1>9. PendingHolds'
  BY <1>1, <1>2 DEF CoreInv, PendingHolds
<1>10. OrderHolds'
  <2>1. Fragments \in Seq(Part) /\ InOrder(Fragments)
    BY <1>3, FragmentsTyped DEF CoreInv, OrderHolds
  <2>2. InOrder(Fragments \o f) /\ LastOf(Fragments \o f) = f[Len(f)].item
    BY <2>1, OrderGoesOn DEF LastItem
  <2>3. InOrder(Fragments)' /\ LastItem' = f[Len(f)].item
    BY <1>4, <2>2 DEF InOrder, LastItem, LastOf
  <2> QED BY <1>1, <2>3 DEF OrderHolds, Exchanging
<1> QED BY <1>4, <1>5, <1>8, <1>9, <1>10 DEF CoreInv

LEMMA SendBatchKeeps == ASSUME CoreInv, SendBatch PROVE CoreInv'
<1> DEFINE f == Batch(Taken)
<1>1. /\ TypesHold /\ AllValid /\ pc = "plan" /\ chunks = <<>> /\ Current <= Len(Items)
      /\ Taken > 0 /\ LastItem = Len(results)
  BY DEF CoreInv, PhaseHolds, OrderHolds, SendBatch
<1>2. f \in Seq(Part) /\ Len(f) = Taken /\ Fits(f, pduLength)
  BY <1>1, BatchFits DEF AllValid
<1>3. Mutates => \A x \in Range(f) : x.payload = Bytes(x)
  BY <1>1, BatchFits DEF AllValid
<1>4. Request(f)
  BY DEF SendBatch, Batch
<1>5. /\ call \in Calls /\ Len(results) \in Nat /\ Len(Items) \in Nat
  BY <1>1, CallTyped DEF TypesHold
<1>6. Taken \in 1 .. Len(Items) - Current + 1 /\ Multi /\ Taken \in Nat /\ Current \in Nat
  BY <1>1, <1>5, TakenMeans DEF Current
<1>7. \A k \in 1 .. Taken : f[k].item = Current + k - 1
  BY DEF Batch, Fragment
<1> HIDE DEF f
<1>8. f # <<>> /\ InOrder(f) /\ f[1].item = Current
  <2>1. f # <<>> /\ 1 \in 1 .. Taken /\ DOMAIN f = 1 .. Taken
    BY <1>2, <1>6
  <2>2. ASSUME NEW j \in DOMAIN f, j > 1 PROVE f[j - 1].item = f[j].item - 1
    <3>1. j \in 1 .. Taken /\ j - 1 \in 1 .. Taken
      BY <2>1, <2>2, <1>6
    <3> QED BY <1>6, <1>7, <3>1
  <2>3. f[1].item = Current
    BY <1>6, <1>7, <2>1
  <2> QED BY <2>1, <2>2, <2>3 DEF InOrder
<1>9. LastItem \in {f[1].item, f[1].item - 1}
  BY <1>1, <1>5, <1>8 DEF Current
<1>10. /\ batch' = f /\ pc' = "send"
       /\ UNCHANGED <<call, pduLength, retries, chunks, offset, results, progress, error, closed>>
  BY <1>2, <1>3, <1>4, RequestSends
<1>11. ChunksHold'
  BY <1>1, <1>10 DEF ChunksHold, Chunked, Exchanging
<1>12. BatchHolds'
  <2>1. Items' = Items /\ Multi' = Multi /\ Current' = Current
    BY <1>10, SameCall DEF Current
  <2>2. batch' = [k \in 1 .. Len(batch') |->
                    Fragment(Current + k - 1, 0, Items[Current + k - 1].count)]
    BY <1>2, <1>10 DEF f, Batch
  <2>3. (batch = Batch(Len(batch)))'
    BY <2>1, <2>2 DEF Batch, Fragment
  <2>4. Current + Len(f) - 1 <= Len(Items)
    BY <1>2, <1>5, <1>6
  <2> QED BY <1>6, <1>8, <1>10, <2>1, <2>3, <2>4 DEF BatchHolds
<1> QED BY <1>1, <1>2, <1>3, <1>4, <1>8, <1>9, <1>11, <1>12, RequestKeeps

LEMMA SendChunkKeeps == ASSUME CoreInv, SendChunk PROVE CoreInv'
<1> DEFINE g == Fragment(Current, offset, Head(chunks))
           area == Items[Current].area
<1>1. /\ TypesHold /\ AllValid /\ pc = "chunk" /\ chunks # <<>> /\ Chunked
      /\ LastItem = IF offset = 0 THEN Len(results) ELSE Current
      /\ Len(results) \in Nat /\ chunks \in Seq(1 .. MaxSection) /\ call \in Calls
      /\ offset \in Nat
  BY DEF CoreInv, PhaseHolds, OrderHolds, SendChunk, Chunked, TypesHold, TypeOK
<1>2. /\ Current <= Len(Items)
      /\ offset + Total(chunks) * ElementSize(area) = Bytes(Items[Current])
      /\ \A k \in DOMAIN chunks : Admissible(area, chunks[k])
      /\ area = "elements" => chunks \in {<<>>, <<Items[Current].count>>}
  BY <1>1 DEF CoreInv, ChunksHold
<1>3. 1 \in DOMAIN chunks
  BY <1>1
<1>4. Admissible(area, chunks[1]) /\ (area = "elements" => chunks = <<Items[Current].count>>)
  BY <1>1, <1>2, <1>3
<1> HIDE DEF g
<1>5. g \in Part /\ <<g>> \in Seq(Part) /\ Fits(<<g>>, pduLength)
  BY <1>1, <1>2, <1>4, ChunkFits DEF g, AllValid
<1>6. Mutates => \A x \in Range(<<g>>) : x.payload = Bytes(x)
  BY <1>1, <1>2, <1>4, ChunkFits DEF g, AllValid
<1>7. Request(<<g>>)
  BY DEF SendChunk, g
<1>8. g.item = Current
  BY DEF g, Fragment
<1>9. InOrder(<<g>>) /\ <<g>> # <<>> /\ <<g>>[1] = g
  BY DEF InOrder
<1>10. LastItem \in {g.item, g.item - 1}
  BY <1>1, <1>8 DEF Current
<1>11. /\ batch' = <<g>> /\ pc' = "send"
       /\ UNCHANGED <<call, pduLength, retries, chunks, offset, results, progress, error, closed>>
  BY <1>5, <1>6, <1>7, RequestSends
<1>12. Items' = Items /\ Multi' = Multi /\ Mutates' = Mutates /\ Current' = Current
  BY <1>11, SameCall DEF Current
<1>13. ChunksHold'
  <2>1. batch' = <<Fragment(Current, offset, Head(chunks))>>'
    BY <1>11, <1>12 DEF g, Fragment
  <2>2. \A n : Admissible(area, n) => Admissible(area, n)'
    BY <1>11, <1>12 DEF Admissible, Overhead
  <2> HIDE DEF g
  <2> QED BY <1>2, <1>11, <1>12, <2>1 DEF ChunksHold, Admissible, Overhead
<1>14. BatchHolds'
  BY <1>1, <1>11 DEF BatchHolds, Batched
<1> QED BY <1>1, <1>5, <1>6, <1>7, <1>9, <1>10, <1>13, <1>14, RequestKeeps

(* Steps that leave the requests, the attempt and the PDU length alone.    *)
LEMMA Stays ==
    ASSUME CoreInv, UNCHANGED <<call, pduLength, requests, error, closed>>, pc # "done"
    PROVE  /\ RequestsFit' /\ Fragments' = Fragments /\ Items' = Items /\ Mutates' = Mutates
           /\ Multi' = Multi /\ (pc # "validate" => AllValid' /\ AllValid)
<1>1. RequestsFit' /\ Fragments' = Fragments
  BY SameRequests DEF CoreInv
<1>2. Items' = Items /\ Mutates' = Mutates /\ Multi' = Multi
  BY SameCall
<1>3. ASSUME pc # "validate" PROVE AllValid' /\ AllValid
  <2>1. pc \in {"plan", "chunk"} \/ Exchanging
    BY <1>3 DEF CoreInv, TypesHold, TypeOK, Exchanging
  <2>2. AllValid /\ call \in Calls /\ pduLength \in 240 .. MaxSection
    BY <2>1 DEF CoreInv, PhaseHolds, TypesHold
  <2>3. pduLength <= pduLength' /\ pduLength' \in 240 .. MaxSection
    <3>1. pduLength \in Nat
      BY <2>2, MaxSectionIs
    <3> QED BY <2>2, <3>1
  <2> QED BY <2>2, <2>3, StaysValid
<1> QED BY <1>1, <1>2, <1>3

LEMMA CutItemKeeps == ASSUME CoreInv, CutItem PROVE CoreInv'
<1> DEFINE item == Items[Current]
           maximum == Maximum(Mutates, pduLength, item.area)
           size == ElementSize(item.area)
<1>1. /\ pc = "plan" /\ chunks = <<>> /\ LastItem = Len(results) /\ Current <= Len(Items)
      /\ call \in Calls /\ pduLength \in 240 .. MaxSection /\ Len(results) \in Nat
      /\ AllValid /\ error = "none"
  BY DEF CoreInv, PhaseHolds, OrderHolds, CutItem, TypesHold
<1>2. Mutates \in BOOLEAN /\ Len(Items) \in Nat
  BY <1>1, CallTyped
<1>3. Current \in 1 .. Len(Items)
  BY <1>1, <1>2 DEF Current
<1>4. item \in ItemRecord /\ item.area \in Areas /\ item.count \in Nat
  BY <1>1, <1>3, CallTyped DEF ItemRecord
<1>5. /\ maximum \in 1 .. MaxSection
      /\ \A n \in Nat : n <= maximum <=>
           /\ n * size + OverheadOf(Mutates) <= pduLength /\ n * size <= LengthLimit(item.area)
  BY <1>1, <1>2, <1>4, MaximumMeans, Zenon
<1>6. maximum \in Nat \ {0}
  BY <1>5, MaxSectionIs
<1>7. \/ maximum = 0
      \/ /\ chunks' = Counts(item.count, maximum) /\ offset' = 0 /\ pc' = "chunk"
         /\ UNCHANGED <<call, pduLength, retries, batch, results, progress, error, closed,
                        requests>>
  BY Zenon DEF CutItem, FirstOffset
<1> HIDE DEF maximum
<1>8. /\ chunks' = Counts(item.count, maximum) /\ offset' = 0 /\ pc' = "chunk"
      /\ UNCHANGED <<call, pduLength, retries, batch, results, progress, error, closed, requests>>
  BY <1>6, <1>7
<1>9. /\ chunks' \in Seq(1 .. maximum) /\ Total(chunks') = item.count
      /\ item.count \in 1 .. maximum => chunks' = <<item.count>>
  <2> HIDE DEF item
  <2> QED BY <1>4, <1>6, <1>8, CountsMake
<1>10. chunks' \in Seq(1 .. MaxSection)
  <2> DEFINE S == 1 .. maximum
             T == 1 .. MaxSection
             s == chunks'
  <2>1. S \subseteq T
    BY <1>5, <1>6, MaxSectionIs
  <2>2. s \in Seq(S)
    BY <1>9
  <2> HIDE DEF S, T, s
  <2>3. s \in Seq(T)
    BY <2>1, <2>2
  <2> QED BY <2>3 DEF s, T
<1>11. /\ RequestsFit' /\ Fragments' = Fragments /\ Items' = Items /\ Mutates' = Mutates
       /\ Multi' = Multi /\ AllValid' /\ Current' = Current
  BY <1>1, <1>8, Stays DEF Current
<1>12. TypesHold'
  BY <1>8, <1>10 DEF CoreInv, TypesHold, TypeOK
<1>13. PhaseHolds'
  BY <1>1, <1>8, <1>11 DEF CoreInv, PhaseHolds, Exchanging
<1>14. BatchHolds' /\ PendingHolds'
  <2>1. BatchHolds'
    BY <1>8 DEF BatchHolds, Batched, Exchanging
  <2>2. PendingHolds'
    BY <1>1, <1>8, <1>11 DEF CoreInv, PendingHolds
  <2> QED BY <2>1, <2>2
<1>15. OrderHolds'
  BY <1>1, <1>8, <1>11 DEF CoreInv, OrderHolds, InOrder, Exchanging, LastItem, LastOf
<1>16. \A k \in DOMAIN chunks' :
          /\ (chunks')[k] * size + Overhead <= pduLength
          /\ (chunks')[k] * size <= LengthLimit(item.area)
  <2>1. ASSUME NEW n \in 1 .. maximum PROVE n * size + Overhead <= pduLength /\ n * size <= LengthLimit(item.area)
    <3>1. n \in Nat /\ n <= maximum
      BY <1>6
    <3>2. n * size + OverheadOf(Mutates) <= pduLength /\ n * size <= LengthLimit(item.area)
      BY <1>5, <3>1, Zenon
    <3> QED BY <3>2, Zenon DEF OverheadOf, Overhead
  <2> DEFINE S == 1 .. maximum
             s == chunks'
  <2>2. s \in Seq(S)
    BY <1>9
  <2> HIDE DEF S, s
  <2>3. \A k \in DOMAIN s : s[k] \in S
    BY <2>2
  <2> QED BY <2>1, <2>3 DEF S, s
<1>17. item.area = "elements" => chunks' = <<item.count>>
  <2> SUFFICES ASSUME item.area = "elements" PROVE item.count \in 1 .. maximum
    BY <1>9
  <2>1. ValidItem(item)
    BY <1>2, <1>3, <1>1, CallTyped DEF AllValid
  <2>2. item.count <= maximum /\ item.count # 0
    <3>1. FitsOneRequest(Mutates, pduLength, item) /\ ValidRange(item)
      BY <2>1, Zenon DEF ValidItem
    <3>2. item.count <= maximum
      BY <3>1, Zenon DEF FitsOneRequest, maximum
    <3> QED BY <3>1, <3>2 DEF ValidRange
  <2> QED BY <1>4, <1>6, <2>2
<1>18. ChunksHold'
  <2>1. 0 + item.count * size = Bytes(item)
    <3>1. Bytes(item) \in Nat /\ Bytes(item) = item.count * size
      BY <1>4, BytesTyped
    <3> QED BY <3>1
  <2>2. (Items[Current])' = item
    BY <1>11
  <2> HIDE DEF item
  <2>3. (offset + Total(chunks) * ElementSize(Items[Current].area) = Bytes(Items[Current]))'
    BY <1>8, <1>9, <2>1, <2>2
  <2>4. (\A k \in DOMAIN chunks : Admissible(Items[Current].area, chunks[k]))'
    <3>1. (Items[Current].area)' = item.area
      BY <2>2
    <3>2. Overhead' = Overhead
      BY <1>11 DEF Overhead
    <3> QED BY <1>8, <1>16, <3>1, <3>2 DEF Admissible
  <2>5. (Current <= Len(Items))'
    BY <1>1, <1>11
  <2>6. (Items[Current].area = "elements" => chunks \in {<<>>, <<Items[Current].count>>})'
    BY <1>17, <2>2
  <2>7. ~Exchanging'
    BY <1>8 DEF Exchanging
  <2> QED BY <2>3, <2>4, <2>5, <2>6, <2>7, Zenon DEF ChunksHold
<1> QED BY <1>11, <1>12, <1>13, <1>14, <1>15, <1>18 DEF CoreInv

(* One more result.                                                        *)
LEMMA OneMoreResult ==
    ASSUME results \in Seq(Result), \A i \in DOMAIN results : results[i].item = i,
           NEW status \in ItemResults, results' = Complete(status)
    PROVE  /\ results' \in Seq(Result) /\ Len(results') = Len(results) + 1
           /\ \A i \in DOMAIN results' : (results'[i]).item = i
           /\ DOMAIN results' = 1 .. Len(results) + 1
           /\ (results'[Len(results) + 1]).status = status
           /\ \A i \in 1 .. Len(results) : results'[i] = results[i]
<1> DEFINE r == [item |-> Current, status |-> status]
           n == Len(results)
<1>1. n \in Nat /\ DOMAIN results = 1 .. n
  OBVIOUS
<1>2. r \in Result /\ r.item = n + 1 /\ r.status = status
  BY <1>1 DEF Current, Result
<1>3. results' = Append(results, r)
  BY DEF Complete
<1> HIDE DEF r
<1>4. /\ results' \in Seq(Result) /\ Len(results') = n + 1 /\ results'[n + 1] = r
      /\ \A i \in 1 .. n : results'[i] = results[i]
  BY <1>2, <1>3, AppendProperties
<1>5. DOMAIN results' = 1 .. n + 1
  BY <1>4
<1>6. \A i \in 1 .. n + 1 : i = n + 1 \/ i \in 1 .. n
  BY <1>1
<1> QED BY <1>1, <1>2, <1>4, <1>5, <1>6

(* An item whose chunks are done was moved.                                *)
LEMMA DoneMeans ==
    ASSUME CoreInv, pc = "chunk", chunks = <<>>
    PROVE  /\ Current \in 1 .. Len(Items) /\ offset = Bytes(Items[Current]) /\ offset # 0
<1>1. /\ call \in Calls /\ Len(results) \in Nat /\ AllValid /\ offset \in Nat
      /\ Current <= Len(Items) /\ TypesHold
      /\ offset + Total(chunks) * ElementSize(Items[Current].area) = Bytes(Items[Current])
  BY DEF CoreInv, TypesHold, TypeOK, PhaseHolds, ChunksHold, Chunked
<1>2. Len(Items) \in Nat /\ DOMAIN Items = 1 .. Len(Items)
  BY <1>1, CallTyped
<1>3. Current \in 1 .. Len(Items)
  BY <1>1, <1>2 DEF Current
<1> DEFINE item == Items[Current]
<1>4. item \in ItemRecord /\ item.area \in Areas /\ item.count \in Nat
  BY <1>1, <1>3, CallTyped DEF ItemRecord
<1>5. item.count # 0
  <2>1. ValidItem(item)
    BY <1>1, <1>2, <1>3 DEF AllValid
  <2>2. ValidRange(item)
    BY <2>1, Zenon DEF ValidItem
  <2> QED BY <2>2 DEF ValidRange
<1>6. Bytes(item) \in Nat /\ Bytes(item) # 0
  BY <1>4, <1>5, BytesTyped
<1>7. Total(chunks) = 0
  BY TotalNothing
<1>8. 0 * ElementSize(item.area) = 0
  <2>1. item.area = "elements" \/ item.area = "bytes"
    BY <1>4 DEF Areas
  <2> QED BY <2>1, Limits
<1>9. offset = Bytes(item)
  <2> DEFINE b == Bytes(item)
             e == ElementSize(item.area)
  <2>1. offset + 0 * e = b /\ 0 * e = 0
    BY <1>1, <1>7, <1>8
  <2> HIDE DEF b, e
  <2>2. offset = b
    BY <1>1, <2>1
  <2> QED BY <2>2 DEF b
<1> QED BY <1>3, <1>6, <1>9

LEMMA ItemCompleteKeeps == ASSUME CoreInv, ItemComplete PROVE CoreInv'
<1>1. /\ pc = "chunk" /\ chunks = <<>> /\ results' = Complete("success") /\ pc' = "plan"
      /\ UNCHANGED <<call, pduLength, retries, chunks, offset, batch, progress, error, closed,
                     requests>>
  BY DEF ItemComplete
<1>2. /\ LastItem = IF offset = 0 THEN Len(results) ELSE Current
      /\ results \in Seq(Result) /\ \A i \in DOMAIN results : results[i].item = i
      /\ error = "none" /\ ~closed /\ Len(results) \in Nat
      /\ call \in Calls
  BY <1>1 DEF CoreInv, PhaseHolds, OrderHolds, TypesHold
<1>3. Current \in 1 .. Len(Items) /\ offset # 0 /\ Len(Items) \in Nat
  BY <1>1, <1>2, DoneMeans, CallTyped
<1>4. /\ results' \in Seq(Result) /\ Len(results') = Len(results) + 1
      /\ \A i \in DOMAIN results' : (results'[i]).item = i
  BY <1>1, <1>2, OneMoreResult DEF ItemResults
<1>5. /\ RequestsFit' /\ Fragments' = Fragments /\ Items' = Items /\ Mutates' = Mutates
      /\ Multi' = Multi /\ AllValid'
  BY <1>1, Stays
<1>6. TypesHold'
  <2> DEFINE s == results'
  <2>1. s \in Seq(Result)
    BY <1>4
  <2> HIDE DEF s
  <2>2. \A i \in DOMAIN s : s[i] \in Result
    BY <2>1
  <2>3. \A i \in DOMAIN results' : (results'[i]).status \in ItemResults
    BY <2>2 DEF s, Result
  <2> QED BY <1>1, <1>4, <2>3 DEF CoreInv, TypesHold, TypeOK
<1>7. PhaseHolds'
  BY <1>1, <1>2, <1>3, <1>4, <1>5 DEF PhaseHolds, Current
<1>8. ChunksHold' /\ BatchHolds'
  BY <1>1 DEF ChunksHold, BatchHolds, Chunked, Batched, Exchanging
<1>9. PendingHolds'
  BY <1>1, <1>5 DEF CoreInv, PendingHolds
<1>10. OrderHolds'
  <2>1. LastItem' = Len(results')
    BY <1>2, <1>3, <1>4, <1>5 DEF LastItem, LastOf, Current
  <2> QED BY <1>1, <1>5, <2>1 DEF CoreInv, OrderHolds, InOrder, Exchanging
<1> QED BY <1>5, <1>6, <1>7, <1>8, <1>9, <1>10 DEF CoreInv

(* Attempts and their repetition leave the plan alone.                     *)
LEMMA AttemptKeeps ==
    ASSUME CoreInv, Exchanging, Exchanging',
           UNCHANGED <<call, chunks, offset, batch, results, error, closed, requests>>,
           pduLength' \in call.pduLengths, pduLength <= pduLength', retries' \in 0 .. ReconnectRetries,
           progress' \in [history : Seq(Attempt), pending : Seq(Part)],
           Mutates => /\ pc' = "await" => progress'.pending = batch
                      /\ pc' = "send" => progress'.pending = <<>>
    PROVE  CoreInv'
<1>1. /\ call \in Calls /\ pduLength \in 240 .. MaxSection /\ AllValid
      /\ error = "none" /\ ~closed /\ pc' \in {"send", "await"} /\ pc # "validate"
  BY DEF CoreInv, TypesHold, PhaseHolds, Exchanging
<1>2. pduLength' \in 240 .. MaxSection
  BY <1>1, TransferAssumption
<1>3. /\ Items' = Items /\ Mutates' = Mutates /\ Multi' = Multi /\ Current' = Current
  BY SameCall DEF Current
<1>4. RequestsFit' /\ Fragments' = Fragments
  BY SameRequests DEF CoreInv
<1>5. AllValid'
  BY <1>1, <1>2, StaysValid
<1>6. TypesHold'
  BY <1>1, <1>2 DEF CoreInv, TypesHold, TypeOK
<1>7. PhaseHolds'
  BY <1>1, <1>3, <1>5 DEF CoreInv, PhaseHolds, Exchanging
<1>8. ChunksHold'
  <2> SUFFICES ASSUME chunks # <<>> PROVE ChunksHold'
    BY DEF ChunksHold, Chunked, Exchanging
  <2> DEFINE area == Items[Current].area
  <2>1. /\ Current <= Len(Items)
        /\ offset + Total(chunks) * ElementSize(area) = Bytes(Items[Current])
        /\ \A k \in DOMAIN chunks : Admissible(area, chunks[k])
        /\ area = "elements" => chunks \in {<<>>, <<Items[Current].count>>}
        /\ batch = <<Fragment(Current, offset, Head(chunks))>>
    BY DEF CoreInv, ChunksHold, Chunked
  <2>2. batch' = <<Fragment(Current, offset, Head(chunks))>>'
    BY <1>3, <2>1 DEF Fragment
  <2>3. (\A k \in DOMAIN chunks : Admissible(Items[Current].area, chunks[k]))'
    <3>1. \A n, e \in Nat : n * e + Overhead \in Nat
      <4>1. Overhead \in Nat
        BY DEF Overhead
      <4> HIDE DEF Overhead
      <4>2. \A n, e \in Nat : n * e \in Nat
        OBVIOUS
      <4> QED BY <4>1, <4>2
    <3>2. ASSUME NEW k \in DOMAIN chunks
          PROVE  /\ chunks[k] * ElementSize(area) + Overhead <= pduLength'
                 /\ chunks[k] * ElementSize(area) <= LengthLimit(area)
      <4>1. /\ chunks[k] * ElementSize(area) + Overhead <= pduLength
            /\ chunks[k] * ElementSize(area) <= LengthLimit(area)
        BY <2>1 DEF Admissible
      <4>2. chunks[k] \in Nat /\ ElementSize(area) \in Nat
        <5>1. chunks[k] \in 1 .. MaxSection
          <6> DEFINE S == 1 .. MaxSection
          <6>1. chunks \in Seq(S)
            BY DEF CoreInv, TypesHold, TypeOK
          <6> HIDE DEF S
          <6>2. chunks[k] \in S
            BY <6>1
          <6> QED BY <6>2 DEF S
        <5> QED BY <5>1, MaxSectionIs DEF ElementSize
      <4>3. pduLength \in Nat /\ pduLength' \in Nat
        BY <1>1, <1>2, MaxSectionIs
      <4> DEFINE total == chunks[k] * ElementSize(area) + Overhead
      <4>4. total \in Nat /\ total <= pduLength
        BY <3>1, <4>1, <4>2
      <4> HIDE DEF total
      <4>5. total <= pduLength'
        BY <4>3, <4>4
      <4> QED BY <4>1, <4>5 DEF total
    <3>3. Overhead' = Overhead /\ (Items[Current].area)' = area
      BY <1>3 DEF Overhead
    <3> QED BY <3>2, <3>3 DEF Admissible
  <2>4. (offset + Total(chunks) * ElementSize(Items[Current].area) = Bytes(Items[Current]))'
    BY <1>3, <2>1
  <2> QED BY <1>3, <2>1, <2>2, <2>3, <2>4, Zenon DEF ChunksHold
<1>9. BatchHolds'
  BY <1>3 DEF CoreInv, BatchHolds, Batched, Batch, Fragment
<1>10. PendingHolds'
  BY <1>1, <1>3 DEF CoreInv, PendingHolds
<1>11. OrderHolds'
  BY <1>1, <1>4 DEF CoreInv, OrderHolds, InOrder, Exchanging, LastItem, LastOf
<1> QED BY <1>4, <1>6, <1>7, <1>8, <1>9, <1>10, <1>11 DEF CoreInv

LEMMA SendKeeps == ASSUME CoreInv, Send PROVE CoreInv'
<1>1. /\ progress \in [history : Seq(Attempt), pending : Seq(Part)] /\ batch \in Seq(Part)
      /\ pduLength \in 240 .. MaxSection /\ pduLength \in call.pduLengths
      /\ retries \in 0 .. ReconnectRetries
  BY DEF CoreInv, TypesHold, TypeOK
<1>2. /\ pc = "send" /\ pc' = "await" /\ pduLength' = pduLength /\ retries' = retries
      /\ UNCHANGED <<call, chunks, offset, batch, results, error, closed, requests>>
      /\ progress' = IF Mutates THEN Sent(progress, batch) ELSE progress
  BY DEF Send
<1>3. /\ Sent(progress, batch) \in [history : Seq(Attempt), pending : Seq(Part)]
      /\ Sent(progress, batch).pending = batch
  BY <1>1 DEF Sent
<1>4. progress' \in [history : Seq(Attempt), pending : Seq(Part)] /\ (Mutates => progress'.pending = batch)
  BY <1>1, <1>2, <1>3
<1>5. pduLength <= pduLength'
  BY <1>1, <1>2, MaxSectionIs
<1> QED BY <1>1, <1>2, <1>4, <1>5, AttemptKeeps DEF Exchanging

LEMMA RetryKeeps == ASSUME CoreInv, Retry PROVE CoreInv'
<1>1. /\ progress \in [history : Seq(Attempt), pending : Seq(Part)]
      /\ retries \in 0 .. ReconnectRetries /\ ReconnectRetries \in Nat
  BY TransferAssumption DEF CoreInv, TypesHold, TypeOK
<1>2. /\ Exchanging /\ pc' = "send" /\ retries > 0 /\ retries' = retries - 1
      /\ UNCHANGED <<call, chunks, offset, batch, results, error, closed, requests>>
      /\ progress' = IF Mutates THEN Replay(progress) ELSE progress
      /\ pduLength' \in call.pduLengths /\ pduLength <= pduLength'
  BY DEF Retry, Exchanging
<1>3. /\ Replay(progress) \in [history : Seq(Attempt), pending : Seq(Part)]
      /\ Replay(progress).pending = <<>>
  BY <1>1, FinishTyped DEF Replay, KnownOutcomes
<1>4. /\ progress' \in [history : Seq(Attempt), pending : Seq(Part)]
      /\ Mutates => progress'.pending = <<>>
  BY <1>1, <1>2, <1>3
<1>5. retries' \in 0 .. ReconnectRetries
  BY <1>1, <1>2
<1> QED BY <1>2, <1>4, <1>5, AttemptKeeps DEF Exchanging

LEMMA StatusesAre ==
    ASSUME batch \in Seq(Part), NEW statuses \in Statuses
    PROVE  /\ DOMAIN statuses = 1 .. Len(batch) /\ DOMAIN batch = 1 .. Len(batch)
           /\ Len(batch) \in Nat
           /\ \A i \in 1 .. Len(batch) : statuses[i] \in ItemResults
BY DEF Statuses, ItemResults

LEMMA AcknowledgeTyped ==
    ASSUME CoreInv, pc = "await", NEW statuses \in Statuses,
           progress' = IF Mutates THEN Acknowledge(progress, statuses) ELSE progress
    PROVE  /\ progress' \in [history : Seq(Attempt), pending : Seq(Part)]
           /\ Mutates => progress'.pending = <<>>
<1>1. /\ progress \in [history : Seq(Attempt), pending : Seq(Part)] /\ batch \in Seq(Part)
      /\ Mutates => progress.pending = batch
  BY DEF CoreInv, TypesHold, PendingHolds
<1>2. CASE Mutates
  <2>1. \A i \in DOMAIN progress.pending : statuses[i] \in KnownOutcomes
    BY <1>1, <1>2, StatusesAre DEF KnownOutcomes
  <2>2. /\ Settled(progress, statuses) \in [history : Seq(Attempt), pending : Seq(Part)]
        /\ Settled(progress, statuses).pending = <<>>
    BY <1>1, <2>1, SettledTyped
  <2>3. progress' = Settled(progress, statuses)
    BY <1>2 DEF Acknowledge
  <2> QED BY <2>2, <2>3
<1>3. CASE ~Mutates
  <2>1. progress' = progress
    BY <1>3
  <2> QED BY <1>1, <1>3, <2>1
<1> QED BY <1>2, <1>3

(* What every answer that counts leaves as it should be.                   *)
LEMMA AnswerKeeps ==
    ASSUME CoreInv, pc = "await", NEW statuses \in Statuses, pc' \in {"plan", "chunk"},
           progress' = IF Mutates THEN Acknowledge(progress, statuses) ELSE progress,
           retries' = 0, UNCHANGED <<call, pduLength, batch, requests, error, closed>>,
           results' \in Seq(Result), \A i \in DOMAIN results' : (results'[i]).item = i,
           Len(results') <= Len(Items), chunks' \in Seq(1 .. MaxSection), offset' \in Nat,
           pc' = "plan" => chunks' = <<>>,
           ChunksHold',
           pc' = "plan" => LastItem = Len(results'),
           pc' = "chunk" => LastItem = Len(results') + 1 /\ offset' # 0
    PROVE  CoreInv'
<1>1. /\ RequestsFit' /\ Fragments' = Fragments /\ Items' = Items /\ Mutates' = Mutates
      /\ AllValid'
  BY Stays
<1>2. /\ progress' \in [history : Seq(Attempt), pending : Seq(Part)]
      /\ Mutates => progress'.pending = <<>>
  BY AcknowledgeTyped
<1>3. error = "none" /\ ~closed
  BY DEF CoreInv, PhaseHolds
<1>4. TypesHold'
  <2> DEFINE s == results'
             c == chunks'
             S == 1 .. MaxSection
  <2>1. s \in Seq(Result) /\ c \in Seq(S)
    OBVIOUS
  <2>2. ReconnectRetries \in Nat
    BY TransferAssumption
  <2> HIDE DEF s, c, S
  <2>3. \A i \in DOMAIN s : s[i].status \in ItemResults
    <3>1. \A i \in DOMAIN s : s[i] \in Result
      BY <2>1
    <3> QED BY <3>1 DEF Result
  <2>4. retries' \in 0 .. ReconnectRetries
    BY <2>2
  <2>5. TypeOK'
    BY <2>1, <2>3, <2>4 DEF CoreInv, TypesHold, TypeOK, s, c, S
  <2> QED BY <1>2, <2>5 DEF CoreInv, TypesHold
<1>5. PhaseHolds'
  BY <1>1, <1>3 DEF PhaseHolds, Exchanging
<1>6. BatchHolds'
  BY DEF BatchHolds, Batched, Exchanging
<1>7. PendingHolds'
  BY <1>1, <1>2 DEF PendingHolds
<1>8. OrderHolds'
  BY <1>1 DEF CoreInv, OrderHolds, InOrder, Exchanging, LastItem, LastOf, Current
<1> QED BY <1>1, <1>4, <1>5, <1>6, <1>7, <1>8 DEF CoreInv

(* The results of a batch are appended in the order of its items.          *)
LEMMA BatchResults ==
    ASSUME CoreInv, Batched, NEW statuses \in Statuses,
           results' = results \o [i \in DOMAIN batch |->
                                    [item |-> batch[i].item, status |-> statuses[i]]]
    PROVE  /\ results' \in Seq(Result) /\ Len(results') = Len(results) + Len(batch)
           /\ Len(results') <= Len(Items) /\ batch # <<>>
           /\ DOMAIN results' = 1 .. Len(results) + Len(batch)
           /\ \A i \in 1 .. Len(results) : results'[i] = results[i]
           /\ \A i \in 1 .. Len(batch) :
                batch[i].item = Len(results) + i
                /\ results'[Len(results) + i] = [item |-> batch[i].item, status |-> statuses[i]]
           /\ \A i \in DOMAIN results' : (results'[i]).item = i
<1> DEFINE added == [i \in DOMAIN batch |-> [item |-> batch[i].item, status |-> statuses[i]]]
           n == Len(results)
           m == Len(batch)
<1>1. /\ batch \in Seq(Part) /\ results \in Seq(Result) /\ batch # <<>>
      /\ Current + m - 1 <= Len(Items) /\ batch = Batch(m)
      /\ \A i \in DOMAIN results : results[i].item = i
      /\ call \in Calls
  BY DEF CoreInv, TypesHold, BatchHolds, PhaseHolds
<1>2. n \in Nat /\ m \in Nat /\ DOMAIN batch = 1 .. m /\ DOMAIN results = 1 .. n
  BY <1>1
<1>3. \A i \in 1 .. m : batch[i].item = n + i
  <2>1. ASSUME NEW i \in 1 .. m PROVE batch[i].item = n + i
    <3>1. batch[i] = Fragment(Current + i - 1, 0, Items[Current + i - 1].count)
      BY <1>1 DEF Batch
    <3>2. batch[i].item = Current + i - 1
      BY <3>1 DEF Fragment
    <3> QED BY <1>2, <3>2 DEF Current
  <2> QED BY <2>1
<1>4. added \in Seq(Result) /\ Len(added) = m /\ \A i \in 1 .. m : added[i] \in Result
  <2>1. \A i \in 1 .. m : added[i] \in Result
    <3>1. \A i \in 1 .. m : statuses[i] \in ItemResults
      BY <1>1, StatusesAre
    <3>2. \A i \in 1 .. m : batch[i].item \in Nat
      BY <1>2, <1>3
    <3> QED BY <1>2, <3>1, <3>2 DEF Result
  <2> QED BY <1>2, <2>1
<1>5. \A i \in 1 .. m : added[i] = [item |-> batch[i].item, status |-> statuses[i]]
  BY <1>2
<1>6. results' = results \o added
  OBVIOUS
<1> HIDE DEF added
<1>7. /\ results' \in Seq(Result) /\ Len(results') = n + m
      /\ DOMAIN results' = 1 .. n + m
      /\ \A i \in 1 .. n : results'[i] = results[i]
      /\ \A i \in n + 1 .. n + m : results'[i] = added[i - n]
  <2> DEFINE both == results'
  <2>1. both = results \o added
    BY <1>6
  <2> HIDE DEF both
  <2>2. both \in Seq(Result) /\ Len(both) = n + m
    <3>1. both \in Seq(Result) /\ Len(both) = Len(results) + Len(added)
      BY <1>1, <1>4, <2>1, ConcatProperties
    <3> QED BY <1>4, <3>1
  <2>3. DOMAIN both = 1 .. n + m
    BY <2>2
  <2>4. \A i \in 1 .. n : both[i] = results[i]
    BY <1>1, <1>2, <1>4, <2>1
  <2>5. \A i \in n + 1 .. n + m : both[i] = added[i - n]
    BY <1>1, <1>2, <1>4, <2>1
  <2> QED BY <2>2, <2>3, <2>4, <2>5 DEF both
<1>8. \A i \in 1 .. m : results'[n + i] = added[i]
  <2>1. ASSUME NEW i \in 1 .. m PROVE results'[n + i] = added[i]
    <3>1. n + i \in n + 1 .. n + m /\ (n + i) - n = i
      BY <1>2
    <3> QED BY <1>7, <3>1
  <2> QED BY <2>1
<1>9. ASSUME NEW i \in 1 .. n + m PROVE (results'[i]).item = i
  <2>1. CASE i \in 1 .. n
    BY <1>1, <1>2, <1>7, <2>1
  <2>2. CASE i \notin 1 .. n
    <3>1. PICK k \in 1 .. m : n + k = i
      <4>1. i - n \in 1 .. m /\ n + (i - n) = i
        BY <1>2, <2>2
      <4> QED BY <4>1
    <3>2. results'[n + k] = added[k]
      BY <1>8
    <3>3. added[k].item = batch[k].item
      BY <1>5
    <3> QED BY <1>3, <3>1, <3>2, <3>3
  <2> QED BY <2>1, <2>2
<1>10. n + m <= Len(Items)
  <2>1. Len(Items) \in Nat
    BY <1>1, CallTyped
  <2> QED BY <1>1, <1>2, <2>1 DEF Current
<1> QED BY <1>1, <1>3, <1>5, <1>7, <1>8, <1>9, <1>10

(* The fragment that was answered is the first of the chunks left.         *)
LEMMA ChunkInFlight ==
    ASSUME CoreInv, Exchanging, chunks # <<>>
    PROVE  LET item == Items[Current]
           IN  /\ Current \in 1 .. Len(Items) /\ Len(Items) \in Nat
               /\ batch = <<Fragment(Current, offset, Head(chunks))>> /\ batch[1] \in Part
               /\ batch[1].item = Current /\ batch[1].offset = offset
               /\ batch[1].start = item.start + offset /\ batch[1].count = Head(chunks)
               /\ Bytes(batch[1]) = Head(chunks) * ElementSize(item.area)
               /\ Bytes(batch[1]) \in Nat /\ Bytes(batch[1]) # 0
               /\ ElementSize(item.area) \in {1, 2} /\ Bytes(item) \in Nat
               /\ offset + Bytes(batch[1]) <= Bytes(item)
               /\ (offset + Bytes(batch[1])) + Total(Tail(chunks)) * ElementSize(item.area)
                    = Bytes(item)
               /\ Tail(chunks) \in Seq(1 .. MaxSection)
               /\ \A k \in DOMAIN Tail(chunks) :
                    k + 1 \in DOMAIN chunks /\ Tail(chunks)[k] = chunks[k + 1]
<1> DEFINE i == Current
           item == Items[i]
           size == ElementSize(item.area)
           n == Head(chunks)
           g == batch[1]
           whole == Bytes(item)
           S == 1 .. MaxSection
<1>1. /\ call \in Calls /\ Len(results) \in Nat /\ offset \in Nat /\ chunks \in Seq(S)
      /\ i <= Len(Items) /\ offset + Total(chunks) * size = whole
      /\ batch = <<Fragment(i, offset, n)>>
  BY DEF CoreInv, TypesHold, TypeOK, ChunksHold, Chunked
<1>2. Len(Items) \in Nat /\ i \in 1 .. Len(Items)
  BY <1>1, CallTyped DEF Current
<1>3. item \in ItemRecord /\ item.area \in Areas /\ item.count \in Nat
  BY <1>1, <1>2, CallTyped DEF ItemRecord
<1>4. size \in {1, 2} /\ whole \in Nat
  <2>1. item.area = "elements" \/ item.area = "bytes"
    BY <1>3 DEF Areas
  <2>2. size \in {1, 2}
    BY <2>1, Limits
  <2> QED BY <1>3, <2>2, BytesTyped
<1>5. S \subseteq Nat
  BY MaxSectionIs
<1> HIDE DEF S, whole, i, size
<1>6. n \in S /\ n \in Nat
  BY <1>1, <1>5, FirstOfList
<1>7. offset + n * size <= whole /\ (offset + n * size) + Total(Tail(chunks)) * size = whole
  <2>1. offset + Total(chunks) * size = whole /\ chunks \in Seq(S) /\ offset \in Nat
    BY <1>1
  <2>2. offset + Head(chunks) * size <= whole
    BY <1>4, <1>5, <2>1, HeadOfChunks
  <2>3. (offset + Head(chunks) * size) + Total(Tail(chunks)) * size = whole
    BY <1>4, <1>5, <2>1, HeadOfChunks, ZenonT(30)
  <2> QED BY <2>2, <2>3
<1>8. /\ Tail(chunks) \in Seq(S)
      /\ \A k \in DOMAIN Tail(chunks) : k + 1 \in DOMAIN chunks /\ Tail(chunks)[k] = chunks[k + 1]
  BY <1>1, <1>5, FirstOfList
<1>9. n # 0
  BY <1>6, MaxSectionIs DEF S
<1>10. g = Fragment(i, offset, n)
  BY <1>1
<1> HIDE DEF g, n
<1>11. /\ g \in Part /\ g.item = i /\ g.offset = offset /\ g.area = item.area
       /\ g.start = item.start + offset /\ g.count = n /\ Bytes(g) = n * ElementSize(item.area)
  BY <1>1, <1>2, <1>6, <1>10, FragmentIs
<1>12. Bytes(g) \in Nat /\ Bytes(g) # 0 /\ Bytes(g) = n * size
  BY <1>3, <1>6, <1>9, <1>11, BytesTyped DEF size
<1>13. offset + Bytes(g) <= whole /\ (offset + Bytes(g)) + Total(Tail(chunks)) * size = whole
  BY <1>7, <1>12
<1>14. i = Current /\ size = ElementSize(item.area) /\ n = Head(chunks) /\ g = batch[1] /\ whole = Bytes(item)
  BY DEF i, size, n, g, whole
<1> HIDE DEF item
<1>15. /\ Current \in 1 .. Len(Items) /\ Len(Items) \in Nat
       /\ batch = <<Fragment(Current, offset, Head(chunks))>> /\ g \in Part
       /\ g.item = Current /\ g.offset = offset
       /\ g.start = item.start + offset /\ g.count = Head(chunks)
       /\ Bytes(g) = Head(chunks) * ElementSize(item.area)
       /\ Bytes(g) \in Nat /\ Bytes(g) # 0
       /\ ElementSize(item.area) \in {1, 2} /\ Bytes(item) \in Nat
       /\ offset + Bytes(g) <= Bytes(item)
       /\ (offset + Bytes(g)) + Total(Tail(chunks)) * ElementSize(item.area) = Bytes(item)
       /\ Tail(chunks) \in Seq(1 .. MaxSection)
  BY <1>1, <1>2, <1>4, <1>8, <1>11, <1>12, <1>13, <1>14 DEF S
<1> QED BY <1>8, <1>14, <1>15 DEF item

LEMMA AnsweredKeeps == ASSUME CoreInv, Answered PROVE CoreInv'
<1>1. pc = "await" /\ Exchanging
  BY DEF Answered, Exchanging
<1>2. PICK statuses \in Statuses :
        \/ ~Multi /\ statuses[1] # "success" /\ Fail("plcRejected")
        \/ /\ Multi \/ statuses[1] = "success"
           /\ \/ chunks = <<>> /\ BatchAnswered(statuses)
              \/ chunks # <<>> /\ ChunkAnswered(statuses)
           /\ retries' = 0
           /\ UNCHANGED <<call, pduLength, batch, requests>>
  BY Zenon DEF Answered
<1>3. CASE Fail("plcRejected")
  BY <1>1, <1>3, FailEnds
<1>4. /\ batch \in Seq(Part) /\ results \in Seq(Result) /\ Len(results) \in Nat
      /\ \A i \in DOMAIN results : results[i].item = i
      /\ LastItem = batch[Len(batch)].item /\ offset \in Nat /\ call \in Calls
      /\ chunks \in Seq(1 .. MaxSection)
  BY <1>1 DEF CoreInv, TypesHold, TypeOK, PhaseHolds, OrderHolds
<1>5. CASE /\ chunks = <<>> /\ BatchAnswered(statuses) /\ retries' = 0
           /\ UNCHANGED <<call, pduLength, batch, requests>>
  <2>1. /\ pc' = "plan"
        /\ progress' = IF Mutates THEN Acknowledge(progress, statuses) ELSE progress
        /\ UNCHANGED <<chunks, offset, error, closed>>
        /\ results' = results \o [i \in DOMAIN batch |->
                                    [item |-> batch[i].item, status |-> statuses[i]]]
    BY <1>5 DEF BatchAnswered
  <2>2. /\ results' \in Seq(Result) /\ Len(results') = Len(results) + Len(batch)
        /\ Len(results') <= Len(Items) /\ batch # <<>>
        /\ \A i \in 1 .. Len(batch) : batch[i].item = Len(results) + i
        /\ \A i \in DOMAIN results' : (results'[i]).item = i
    BY <1>1, <1>5, <2>1, BatchResults DEF Batched
  <2>3. LastItem = Len(results')
    <3>1. Len(batch) \in 1 .. Len(batch)
      BY <1>4, <2>2
    <3> QED BY <1>4, <2>2, <3>1
  <2>4. ChunksHold'
    BY <2>1 DEF ChunksHold, Chunked, Exchanging
  <2>5. chunks' \in Seq(1 .. MaxSection) /\ offset' \in Nat /\ chunks' = <<>>
    BY <1>4, <1>5, <2>1
  <2> QED BY <1>1, <1>5, <2>1, <2>2, <2>3, <2>4, <2>5, AnswerKeeps
<1>6. CASE /\ chunks # <<>> /\ ChunkAnswered(statuses) /\ retries' = 0
           /\ UNCHANGED <<call, pduLength, batch, requests>>
  <2> DEFINE item == Items[Current]
             size == ElementSize(item.area)
             rest == Tail(chunks)
             g == batch[1]
  <2>1. /\ Current \in 1 .. Len(Items) /\ Len(Items) \in Nat
        /\ batch = <<Fragment(Current, offset, Head(chunks))>>
        /\ g.item = Current /\ Bytes(g) \in Nat /\ Bytes(g) # 0
        /\ (offset + Bytes(g)) + Total(rest) * size = Bytes(item)
        /\ rest \in Seq(1 .. MaxSection)
        /\ \A k \in DOMAIN rest : k + 1 \in DOMAIN chunks /\ rest[k] = chunks[k + 1]
    BY <1>1, <1>6, ChunkInFlight
  <2>2. LastItem = Current /\ Len(batch) = 1
    <3>1. Len(batch) = 1
      BY <2>1
    <3> QED BY <1>4, <2>1, <3>1
  <2>3. /\ progress' = IF Mutates THEN Acknowledge(progress, statuses) ELSE progress
        /\ UNCHANGED <<error, closed>>
    BY <1>6 DEF ChunkAnswered
  <2>4. CASE /\ chunks' = rest /\ offset' = offset + Bytes(g) /\ pc' = "chunk" /\ results' = results
    <3>1. Items' = Items /\ Current' = Current /\ Mutates' = Mutates
      BY <1>6, <2>4, SameCall DEF Current
    <3>2. /\ \A k \in DOMAIN chunks : Admissible(item.area, chunks[k])
          /\ item.area = "elements" => chunks \in {<<>>, <<item.count>>}
      BY <1>1, <1>6 DEF CoreInv, ChunksHold, Chunked
    <3>3. \A k \in DOMAIN rest : Admissible(item.area, rest[k])
      BY <2>1, <3>2
    <3>4. item.area = "elements" => rest = <<>>
      <4> DEFINE n == item.count
      <4>1. item.area = "elements" => chunks = <<n>>
        BY <1>6, <3>2
      <4> HIDE DEF n, item
      <4>2. chunks = <<n>> => Tail(chunks) = <<>>
        <5> SUFFICES ASSUME chunks = <<n>> PROVE Tail(<<n>>) = <<>>
          OBVIOUS
        <5> QED OBVIOUS
      <4> QED BY <4>1, <4>2
    <3>5. (\A k \in DOMAIN chunks : Admissible(Items[Current].area, chunks[k]))'
      <4>1. Overhead' = Overhead /\ (Items[Current].area)' = item.area /\ pduLength' = pduLength
        BY <1>6, <3>1 DEF Overhead
      <4> HIDE DEF item, rest
      <4> QED BY <2>4, <3>3, <4>1 DEF Admissible
    <3>6. (offset + Total(chunks) * ElementSize(Items[Current].area) = Bytes(Items[Current]))'
      BY <2>1, <2>4, <3>1
    <3>7. (Current <= Len(Items))'
      BY <2>1, <3>1
    <3>8. (Items[Current].area = "elements" => chunks \in {<<>>, <<Items[Current].count>>})'
      BY <2>4, <3>1, <3>4
    <3>9. ~Exchanging'
      BY <2>4 DEF Exchanging
    <3>10. ChunksHold'
      BY <3>5, <3>6, <3>7, <3>8, <3>9, Zenon DEF ChunksHold
    <3>11. /\ chunks' \in Seq(1 .. MaxSection) /\ offset' \in Nat /\ offset' # 0
           /\ pc' \in {"plan", "chunk"} /\ pc' # "plan"
           /\ results' \in Seq(Result) /\ \A i \in DOMAIN results' : (results'[i]).item = i
      <4> DEFINE b == Bytes(g)
      <4>1. b \in Nat /\ b # 0 /\ offset' = offset + b
        BY <2>1, <2>4
      <4> HIDE DEF b
      <4>2. offset' \in Nat /\ offset' # 0
        BY <1>4, <4>1
      <4> HIDE DEF rest
      <4> QED BY <1>4, <2>1, <2>4, <4>2
    <3>12. Len(results') <= Len(Items) /\ LastItem = Len(results') + 1
      BY <1>4, <2>1, <2>2, <2>4 DEF Current
    <3> QED BY <1>1, <1>6, <2>3, <2>4, <3>10, <3>11, <3>12, AnswerKeeps
  <2>5. CASE results' = Complete(statuses[1]) /\ chunks' = <<>> /\ pc' = "plan" /\ offset' = offset
    <3>1. statuses[1] \in ItemResults
      BY <1>4, <2>2, StatusesAre
    <3>2. /\ results' \in Seq(Result) /\ Len(results') = Len(results) + 1
          /\ \A i \in DOMAIN results' : (results'[i]).item = i
      BY <1>4, <2>5, <3>1, OneMoreResult
    <3>3. ChunksHold'
      BY <2>5 DEF ChunksHold, Chunked, Exchanging
    <3>4. chunks' \in Seq(1 .. MaxSection) /\ offset' \in Nat /\ pc' \in {"plan", "chunk"} /\ pc' # "chunk"
      BY <1>4, <2>5
    <3>5. Len(results') <= Len(Items) /\ LastItem = Len(results')
      BY <1>4, <2>1, <2>2, <3>2 DEF Current
    <3> QED BY <1>1, <1>6, <2>3, <2>5, <3>2, <3>3, <3>4, <3>5, AnswerKeeps
  <2>6. \/ chunks' = rest /\ offset' = offset + Bytes(g) /\ pc' = "chunk" /\ results' = results
        \/ results' = Complete(statuses[1]) /\ chunks' = <<>> /\ pc' = "plan" /\ offset' = offset
    BY <1>6 DEF ChunkAnswered
  <2> QED BY <2>4, <2>5, <2>6
<1> QED BY <1>2, <1>3, <1>5, <1>6

LEMMA ExchangeFailsKeeps == ASSUME CoreInv, ExchangeFails PROVE CoreInv'
<1>1. /\ Exchanging
      /\ \E kind \in {"plcRejected", "protocol", "disconnected", "timeout"} : Fail(kind)
  BY DEF ExchangeFails, Exchanging
<1> QED BY <1>1, FailEnds

-----------------------------------------------------------------------------
(* What every reachable state satisfies                                    *)

LEMMA CoreStarts == ASSUME Init PROVE CoreInv
<1>1. /\ call \in Calls /\ pduLength \in call.pduLengths /\ retries = ReconnectRetries
      /\ pc = "validate" /\ chunks = <<>> /\ offset = 0 /\ batch = <<>> /\ results = <<>>
      /\ progress = NoProgress /\ error = "none" /\ closed = FALSE /\ requests = <<>>
  BY DEF Init
<1>2. TypesHold
  <2>1. progress \in [history : Seq(Attempt), pending : Seq(Part)]
    BY <1>1 DEF NoProgress
  <2>2. pduLength \in 240 .. MaxSection
    BY <1>1, CallTyped
  <2>3. retries \in 0 .. ReconnectRetries
    BY <1>1, TransferAssumption
  <2>4. chunks \in Seq(1 .. MaxSection)
    <3> DEFINE S == 1 .. MaxSection
    <3> HIDE DEF S
    <3>1. chunks \in Seq(S)
      BY <1>1
    <3> QED BY <3>1 DEF S
  <2>5. TypeOK
    <3> DEFINE S == 1 .. MaxSection
    <3>1. chunks \in Seq(S)
      BY <2>4
    <3> HIDE DEF S
    <3>2. \A i \in DOMAIN results : results[i].status \in ItemResults
      BY <1>1
    <3>3. /\ pduLength \in call.pduLengths /\ offset \in Nat /\ closed \in BOOLEAN
          /\ pc \in {"validate", "plan", "chunk", "send", "await", "done"}
          /\ error \in {"none", "invalidInput", "plcRejected", "protocol", "disconnected", "timeout"}
      BY <1>1
    <3> QED BY <2>3, <3>1, <3>2, <3>3, Zenon DEF TypeOK, S
  <2> QED BY <1>1, <2>1, <2>2, <2>5 DEF TypesHold
<1>3. PhaseHolds
  <2>1. Len(Items) \in Nat
    BY <1>1, CallTyped
  <2>2. Len(results) <= Len(Items) /\ \A i \in DOMAIN results : results[i].item = i
    BY <1>1, <2>1
  <2> QED BY <1>1, <2>2 DEF PhaseHolds, Exchanging
<1>4. ChunksHold /\ BatchHolds
  BY <1>1 DEF ChunksHold, BatchHolds, Chunked, Batched, Exchanging
<1>5. PendingHolds
  BY <1>1 DEF PendingHolds, NoProgress
<1>6. RequestsFit
  BY <1>1 DEF RequestsFit, Range
<1>7. OrderHolds
  <2>1. Fragments = <<>>
    <3>1. [i \in DOMAIN requests |-> requests[i].fragments] = <<>>
      BY <1>1
    <3> QED BY <3>1, FlattenNothing DEF Fragments
  <2> QED BY <1>1, <2>1 DEF OrderHolds, InOrder, LastItem, LastOf, Exchanging
<1> QED BY <1>2, <1>3, <1>4, <1>5, <1>6, <1>7 DEF CoreInv

LEMMA CoreStutters == ASSUME CoreInv, UNCHANGED vars PROVE CoreInv'
<1>1. /\ UNCHANGED <<call, pduLength, retries, pc, chunks, offset, batch, results, progress,
                     error, closed, requests>>
  BY DEF vars
<1>2. Items' = Items /\ Mutates' = Mutates /\ Multi' = Multi /\ Current' = Current
  BY <1>1, SameCall DEF Current
<1>3. RequestsFit' /\ Fragments' = Fragments
  BY <1>1, SameRequests DEF CoreInv
<1>4. TypesHold'
  BY <1>1 DEF CoreInv, TypesHold, TypeOK
<1>5. AllValid => AllValid'
  <2>1. call \in Calls /\ pduLength \in 240 .. MaxSection
    BY DEF CoreInv, TypesHold
  <2>2. pduLength <= pduLength' /\ pduLength' \in 240 .. MaxSection
    <3>1. pduLength \in Nat
      BY <2>1, MaxSectionIs
    <3> QED BY <1>1, <2>1, <3>1
  <2> QED BY <1>1, <2>1, <2>2, StaysValid
<1>6. PhaseHolds'
  BY <1>1, <1>2, <1>5 DEF CoreInv, PhaseHolds, Exchanging
<1>7. ChunksHold'
  <2>1. ChunksHold
    BY DEF CoreInv
  <2> QED BY <1>1, <1>2, <2>1
       DEF ChunksHold, Chunked, Exchanging, Admissible, Overhead, Fragment
<1>8. BatchHolds' /\ PendingHolds'
  <2>1. BatchHolds'
    BY <1>1, <1>2 DEF CoreInv, BatchHolds, Batched, Exchanging, Batch, Fragment
  <2>2. PendingHolds'
    BY <1>1, <1>2 DEF CoreInv, PendingHolds, Lost
  <2> QED BY <2>1, <2>2
<1>9. OrderHolds'
  BY <1>1, <1>3 DEF CoreInv, OrderHolds, InOrder, Exchanging, LastItem, LastOf, Current
<1> QED BY <1>3, <1>4, <1>6, <1>7, <1>8, <1>9 DEF CoreInv

LEMMA CoreKept == ASSUME CoreInv, [Next]_vars PROVE CoreInv'
<1>1. CASE UNCHANGED vars
  BY <1>1, CoreStutters
<1>2. CASE Validate
  BY <1>2, ValidateKeeps
<1>3. CASE SendBatch
  BY <1>3, SendBatchKeeps
<1>4. CASE CutItem
  BY <1>4, CutItemKeeps
<1>5. CASE SendChunk
  BY <1>5, SendChunkKeeps
<1>6. CASE ItemComplete
  BY <1>6, ItemCompleteKeeps
<1>7. CASE AllComplete
  BY <1>7, AllCompleteKeeps
<1>8. CASE Send
  BY <1>8, SendKeeps
<1>9. CASE Retry
  BY <1>9, RetryKeeps
<1>10. CASE Answered
  BY <1>10, AnsweredKeeps
<1>11. CASE ExchangeFails
  BY <1>11, ExchangeFailsKeeps
<1> QED
  BY <1>1, <1>2, <1>3, <1>4, <1>5, <1>6, <1>7, <1>8, <1>9, <1>10, <1>11, Zenon DEF Next

LEMMA Core == Spec => []CoreInv
<1>1. Init => CoreInv
  BY CoreStarts
<1>2. CoreInv /\ [Next]_vars => CoreInv'
  BY CoreKept
<1> QED BY <1>1, <1>2, PTL DEF Spec

(* Every request a transfer sends, and the response it asks for, fits the  *)
(* PDU it was planned for, and none of its fields is truncated: for any    *)
(* items, PDU lengths and retries.                                         *)
THEOREM RequestsAlwaysFit == Spec => []RequestsFit
<1>1. CoreInv => RequestsFit
  BY DEF CoreInv
<1> QED BY <1>1, Core, PTL

(* The i-th result a caller receives is the i-th item's, whether the item  *)
(* went in a batch or in chunks, and items are requested in order.         *)
THEOREM ResultsAlwaysBelong == Spec => []ResultsBelong
<1>1. CoreInv => ResultsBelong
  BY DEF CoreInv, TypesHold, PhaseHolds, OrderHolds, InOrder, ResultsBelong
<1> QED BY <1>1, Core, PTL

(* Once a call is validated nothing it does ends as invalidInput: that     *)
(* error means that nothing was sent and that the session was kept.        *)
THEOREM RefusedBeforeSending ==
    Spec => [](error = "invalidInput" => requests = <<>> /\ ~closed)
<1>1. CoreInv => (error = "invalidInput" => requests = <<>> /\ ~closed)
  BY DEF CoreInv, PhaseHolds
<1> QED BY <1>1, Core, PTL

-----------------------------------------------------------------------------
(* The parts of an item among fragments                                    *)

OfItem(i) == {f \in Part : f.item = i}

LEMMA PartsTyped ==
    ASSUME NEW F \in Seq(Part), NEW i
    PROVE  PartsOf(i, F) = Chosen(F, OfItem(i)) /\ PartsOf(i, F) \in Seq(Part)
<1> DEFINE u == [k \in DOMAIN F |-> IF F[k].item = i THEN <<F[k]>> ELSE <<>>]
<1>1. DOMAIN F = 1 .. Len(F) /\ \A k \in 1 .. Len(F) : F[k] \in Part
  OBVIOUS
<1>2. \A f \in Part : Choice(f, OfItem(i)) = IF f.item = i THEN <<f>> ELSE <<>>
  BY DEF Choice, OfItem
<1>3. u = [k \in 1 .. Len(F) |-> Choice(F[k], OfItem(i))]
  BY <1>1, <1>2
<1>4. PartsOf(i, F) = Chosen(F, OfItem(i))
  BY <1>3 DEF PartsOf, Chosen
<1> QED BY <1>4, ChoicesTyped

LEMMA PartsConcat ==
    ASSUME NEW F \in Seq(Part), NEW f \in Seq(Part), NEW i
    PROVE  PartsOf(i, F \o f) = PartsOf(i, F) \o PartsOf(i, f)
<1>1. PartsOf(i, F) = Chosen(F, OfItem(i)) /\ PartsOf(i, f) = Chosen(f, OfItem(i))
  BY PartsTyped
<1>2. Chosen(F \o f, OfItem(i)) = Chosen(F, OfItem(i)) \o Chosen(f, OfItem(i))
  BY ChosenConcat
<1> DEFINE both == F \o f
<1>3. both \in Seq(Part)
  OBVIOUS
<1> HIDE DEF both
<1>4. PartsOf(i, both) = Chosen(both, OfItem(i))
  BY <1>3, PartsTyped
<1> QED BY <1>1, <1>2, <1>4 DEF both

(* Fragments of consecutive items, one of each.                            *)
Consecutive(f, first) == \A k \in 1 .. Len(f) : f[k].item = first + k - 1

LEMMA PartsOfConsecutive ==
    ASSUME NEW f \in Seq(Part), NEW first \in Nat, Consecutive(f, first), NEW i \in Nat
    PROVE  PartsOf(i, f) =
             IF first <= i /\ i < first + Len(f) THEN <<f[i - first + 1]>> ELSE <<>>
<1>1. Len(f) \in Nat /\ \A k \in 1 .. Len(f) : f[k] \in Part /\ f[k].item = first + k - 1
  BY DEF Consecutive
<1>2. \A k \in 1 .. Len(f) : f[k] \in OfItem(i) <=> k = i - first + 1
  BY <1>1 DEF OfItem
<1>3. PartsOf(i, f) = Chosen(f, OfItem(i))
  BY PartsTyped
<1>4. CASE first <= i /\ i < first + Len(f)
  <2> DEFINE at == i - first + 1
  <2>1. at \in 1 .. Len(f)
    BY <1>1, <1>4
  <2>2. \A k \in 1 .. Len(f) : f[k] \in OfItem(i) <=> k = at
    BY <1>2
  <2> HIDE DEF at
  <2>3. Chosen(f, OfItem(i)) = <<f[at]>>
    BY <2>1, <2>2, ChosenOne
  <2> QED BY <1>3, <1>4, <2>3 DEF at
<1>5. CASE ~(first <= i /\ i < first + Len(f))
  <2>1. \A k \in 1 .. Len(f) : f[k] \notin OfItem(i)
    BY <1>1, <1>2, <1>5
  <2>2. Chosen(f, OfItem(i)) = <<>>
    BY <2>1, ChosenNone
  <2> QED BY <1>3, <1>5, <2>2
<1> QED BY <1>4, <1>5

(* One more part, at the end of the parts before it.                       *)
Extends(Q, P, g) ==
    /\ Len(Q) = Len(P) + 1 /\ Q[Len(P) + 1] = g
    /\ \A k \in 1 .. Len(P) : Q[k] = P[k] /\ Before(Q, k) = Before(P, k)
    /\ Before(Q, Len(P) + 1) = Total(Sizes(P))
    /\ Total(Sizes(Q)) = Total(Sizes(P)) + Bytes(g) /\ Total(Sizes(P)) \in Nat

LEMMA OneMorePart ==
    ASSUME NEW P \in Seq(Part), NEW g \in Part, NEW Q, Q = P \o <<g>>
    PROVE  Extends(Q, P, g)
<1> DEFINE n == Len(P)
           sizes == Sizes(Q)
           fewer == Sizes(P)
<1>1. /\ n \in Nat /\ Q \in Seq(Part) /\ Len(Q) = n + 1 /\ Q[n + 1] = g
      /\ \A k \in 1 .. n : Q[k] = P[k]
  <2>1. Q = Append(P, g)
    BY AppendIsConcat
  <2> QED BY <2>1, AppendProperties
<1>2. \A x \in Part : Bytes(x) \in Nat
  BY BytesTyped DEF Part
<1>3. /\ sizes \in [1 .. n + 1 -> Nat] /\ sizes[n + 1] = Bytes(g)
      /\ fewer = [k \in 1 .. n |-> sizes[k]]
  <2>1. DOMAIN Q = 1 .. n + 1 /\ DOMAIN P = 1 .. n /\ \A k \in 1 .. n + 1 : Q[k] \in Part
    BY <1>1
  <2>2. \A k \in 1 .. n : k \in 1 .. n + 1
    BY <1>1
  <2>3. n + 1 \in 1 .. n + 1
    BY <1>1
  <2>4. sizes = [k \in 1 .. n + 1 |-> Bytes(Q[k])] /\ fewer = [k \in 1 .. n |-> Bytes(P[k])]
    BY <2>1 DEF Sizes
  <2> HIDE DEF sizes, fewer
  <2>5. sizes \in [1 .. n + 1 -> Nat]
    BY <1>2, <2>1, <2>4
  <2>6. sizes[n + 1] = Bytes(g)
    BY <1>1, <2>3, <2>4
  <2>7. \A k \in 1 .. n : sizes[k] = Bytes(P[k])
    BY <1>1, <2>2, <2>4
  <2> QED BY <2>4, <2>5, <2>6, <2>7
<1> HIDE DEF sizes, fewer
<1>4. Total(sizes) = Total(fewer) + sizes[n + 1] /\ Total(fewer) \in Nat
  BY <1>1, <1>3, TotalOneMore
<1>5. ASSUME NEW k \in 1 .. n + 1 PROVE SubSeq(sizes, 1, k - 1) = SubSeq(fewer, 1, k - 1)
  <2>1. \A j \in 1 .. k - 1 : j \in 1 .. n /\ sizes[j] = fewer[j]
    BY <1>1, <1>3
  <2>2. /\ SubSeq(sizes, 1, k - 1) = [j \in 1 .. k - 1 |-> sizes[j]]
        /\ SubSeq(fewer, 1, k - 1) = [j \in 1 .. k - 1 |-> fewer[j]]
    OBVIOUS
  <2> QED BY <2>1, <2>2
<1>6. ASSUME NEW k \in 1 .. n PROVE Before(Q, k) = Before(P, k)
  <2>1. k \in 1 .. n + 1
    BY <1>1
  <2>2. SubSeq(sizes, 1, k - 1) = SubSeq(fewer, 1, k - 1)
    BY <1>5, <2>1
  <2> QED BY <2>2 DEF Before, sizes, fewer
<1>7. Before(Q, n + 1) = Total(fewer)
  <2>1. SubSeq(fewer, 1, n) = fewer
    <3>1. SubSeq(fewer, 1, n) = [j \in 1 .. n |-> fewer[j]]
      BY <1>1, <1>3
    <3> QED BY <1>3, <3>1
  <2>2. n + 1 \in 1 .. n + 1 /\ (n + 1) - 1 = n
    BY <1>1
  <2>3. SubSeq(sizes, 1, (n + 1) - 1) = fewer
    BY <1>5, <2>1, <2>2
  <2> QED BY <2>3 DEF Before, sizes
<1> QED BY <1>1, <1>3, <1>4, <1>6, <1>7 DEF sizes, fewer, Extends

-----------------------------------------------------------------------------
(* Tiling                                                                  *)

TileInv == CoreInv /\ PartsTile /\ PartsReach

LEMMA CoreTyped ==
    ASSUME CoreInv
    PROVE  /\ call \in Calls /\ Fragments \in Seq(Part) /\ results \in Seq(Result)
           /\ Len(results) \in Nat /\ DOMAIN results = 1 .. Len(results) /\ Current \in Nat
           /\ batch \in Seq(Part) /\ requests \in Seq(RequestRecord) /\ offset \in Nat
           /\ Len(Items) \in Nat /\ DOMAIN Items = 1 .. Len(Items)
           /\ \A i \in 1 .. Len(Items) : Items[i] \in ItemRecord
           /\ \A i : FragmentsOf(i) \in Seq(Part)
<1>1. /\ call \in Calls /\ results \in Seq(Result) /\ batch \in Seq(Part)
      /\ requests \in Seq(RequestRecord) /\ offset \in Nat
  BY DEF CoreInv, TypesHold, TypeOK
<1>2. Fragments \in Seq(Part)
  BY <1>1, FragmentsTyped
<1>3. \A i : FragmentsOf(i) \in Seq(Part)
  BY <1>2, PartsTyped DEF FragmentsOf
<1>4. Len(results) \in Nat /\ DOMAIN results = 1 .. Len(results)
  BY <1>1
<1>5. Current \in Nat
  BY <1>4 DEF Current
<1>6. /\ Len(Items) \in Nat /\ DOMAIN Items = 1 .. Len(Items)
      /\ \A i \in 1 .. Len(Items) : Items[i] \in ItemRecord
  BY <1>1, CallTyped
<1> QED BY <1>1, <1>2, <1>3, <1>4, <1>5, <1>6

LEMMA SameParts ==
    ASSUME Fragments' = Fragments
    PROVE  \A i : FragmentsOf(i)' = FragmentsOf(i) /\ Reached(i)' = Reached(i)
BY DEF FragmentsOf, Reached

LEMMA SameTiles ==
    ASSUME Fragments' = Fragments, Items' = Items, PartsTile
    PROVE  PartsTile'
<1>1. \A i : FragmentsOf(i)' = FragmentsOf(i)
  BY SameParts
<1>2. \A i : Tiled(i) => Tiled(i)'
  BY <1>1 DEF Tiled
<1>3. \A f : Whole(f) => Whole(f)'
  BY DEF Whole
<1>4. (\A i \in DOMAIN Items : Tiled(i))'
  BY <1>1 DEF PartsTile, Tiled
<1>5. (\A j \in DOMAIN Fragments : Whole(Fragments[j]))'
  BY DEF PartsTile, Whole
<1> QED BY <1>4, <1>5 DEF PartsTile

(* Fragments that begin where those before them ended.                     *)
LEMMA MoreTiles ==
    ASSUME CoreInv, PartsTile, Items' = Items, NEW f \in Seq(Part), Fragments' = Fragments \o f,
           Consecutive(f, Current), Current + Len(f) - 1 <= Len(Items),
           \A k \in 1 .. Len(f) :
              /\ Whole(f[k]) /\ f[k].offset = Reached(Current + k - 1)
              /\ f[k].start = Items[Current + k - 1].start + f[k].offset
    PROVE  /\ PartsTile'
           /\ \A i \in Nat : i < Current \/ Current + Len(f) <= i =>
                FragmentsOf(i)' = FragmentsOf(i) /\ Reached(i)' = Reached(i)
           /\ \A i \in Nat, k \in 1 .. Len(f) : i = Current + k - 1 =>
                /\ FragmentsOf(i)' = FragmentsOf(i) \o <<f[k]>>
                /\ Reached(i)' = Reached(i) + Bytes(f[k])
<1> DEFINE c == Current
           m == Len(f)
<1>1. /\ Fragments \in Seq(Part) /\ c \in Nat /\ Len(Items) \in Nat /\ m \in Nat
      /\ DOMAIN Items = 1 .. Len(Items) /\ \A i : FragmentsOf(i) \in Seq(Part)
      /\ DOMAIN f = 1 .. m /\ \A k \in 1 .. m : f[k] \in Part
  BY CoreTyped
<1>2. ASSUME NEW i \in Nat
      PROVE  FragmentsOf(i)' = FragmentsOf(i) \o
                (IF c <= i /\ i < c + m THEN <<f[i - c + 1]>> ELSE <<>>)
  <2>1. PartsOf(i, Fragments \o f) = PartsOf(i, Fragments) \o PartsOf(i, f)
    BY <1>1, PartsConcat
  <2>2. PartsOf(i, f) = IF c <= i /\ i < c + m THEN <<f[i - c + 1]>> ELSE <<>>
    BY <1>1, PartsOfConsecutive
  <2>3. FragmentsOf(i)' = PartsOf(i, Fragments \o f)
    BY DEF FragmentsOf
  <2>4. FragmentsOf(i) = PartsOf(i, Fragments)
    BY DEF FragmentsOf
  <2> QED BY <2>1, <2>2, <2>3, <2>4
<1>3. ASSUME NEW i \in Nat, i < c \/ c + m <= i
      PROVE  FragmentsOf(i)' = FragmentsOf(i) /\ Reached(i)' = Reached(i)
  <2>1. ~(c <= i /\ i < c + m)
    BY <1>1, <1>3
  <2>2. FragmentsOf(i)' = FragmentsOf(i) \o <<>>
    BY <1>2, <2>1
  <2>3. FragmentsOf(i) \o <<>> = FragmentsOf(i)
    BY <1>1, ConcatEmptySeq
  <2>4. FragmentsOf(i)' = FragmentsOf(i)
    BY <2>2, <2>3
  <2> QED BY <2>4 DEF Reached
<1>4. ASSUME NEW i \in Nat, NEW k \in 1 .. m, i = c + k - 1
      PROVE  /\ FragmentsOf(i)' = FragmentsOf(i) \o <<f[k]>>
             /\ Reached(i)' = Reached(i) + Bytes(f[k])
             /\ Tiled(i) => Tiled(i)'
  <2> DEFINE P == FragmentsOf(i)
             g == f[k]
             Q == FragmentsOf(i)'
  <2>1. Q = P \o <<g>>
    <3>1. c <= i /\ i < c + m /\ i - c + 1 = k
      BY <1>1, <1>4
    <3> QED BY <1>2, <3>1
  <2>2. P \in Seq(Part) /\ g \in Part
    BY <1>1
  <2>3. Reached(i) = Total(Sizes(P)) /\ Reached(i)' = Total(Sizes(Q))
    BY DEF Reached
  <2>4. g.offset = Reached(i) /\ g.start = Items[i].start + g.offset
    BY <1>4
  <2>5. Tiled(i) <=> \A j \in DOMAIN P :
            P[j].offset = Before(P, j) /\ P[j].start = Items[i].start + Before(P, j)
    BY DEF Tiled
  <2>6. Tiled(i)' <=> \A j \in DOMAIN Q :
            Q[j].offset = Before(Q, j) /\ Q[j].start = Items[i].start + Before(Q, j)
    BY DEF Tiled
  <2> HIDE DEF P, g, Q
  <2>7. /\ Len(Q) = Len(P) + 1 /\ Q[Len(P) + 1] = g
        /\ \A j \in 1 .. Len(P) : Q[j] = P[j] /\ Before(Q, j) = Before(P, j)
        /\ Before(Q, Len(P) + 1) = Total(Sizes(P))
        /\ Total(Sizes(Q)) = Total(Sizes(P)) + Bytes(g)
    <3>1. Extends(Q, P, g)
      BY <2>1, <2>2, OneMorePart
    <3> QED BY <3>1 DEF Extends
  <2>8. Len(P) \in Nat /\ DOMAIN P = 1 .. Len(P) /\ DOMAIN Q = 1 .. Len(P) + 1
    <3>1. Q \in Seq(Part)
      BY <2>1, <2>2
    <3> QED BY <2>2, <2>7, <3>1
  <2>9. ASSUME Tiled(i), NEW j \in DOMAIN Q
        PROVE  Q[j].offset = Before(Q, j) /\ Q[j].start = Items[i].start + Before(Q, j)
    <3>1. CASE j \in 1 .. Len(P)
      BY <2>5, <2>7, <2>8, <2>9, <3>1
    <3>2. CASE j = Len(P) + 1
      BY <2>3, <2>4, <2>7, <3>2
    <3>3. j \in 1 .. Len(P) \/ j = Len(P) + 1
      BY <2>8
    <3> QED BY <3>1, <3>2, <3>3
  <2>10. Tiled(i) => Tiled(i)'
    BY <2>6, <2>9
  <2>11. Reached(i)' = Reached(i) + Bytes(g)
    BY <2>3, <2>7
  <2> QED BY <2>1, <2>10, <2>11 DEF P, g, Q
<1>5. ASSUME NEW i \in DOMAIN Items PROVE Tiled(i)'
  <2>1. i \in Nat /\ Tiled(i)
    BY <1>1 DEF PartsTile
  <2>2. CASE i < c \/ c + m <= i
    <3>1. FragmentsOf(i)' = FragmentsOf(i)
      BY <1>3, <2>1, <2>2
    <3> QED BY <2>1, <3>1 DEF Tiled
  <2>3. CASE ~(i < c \/ c + m <= i)
    <3>1. PICK k \in 1 .. m : i = c + k - 1
      <4>1. i - c + 1 \in 1 .. m /\ i = c + (i - c + 1) - 1
        BY <1>1, <2>1, <2>3
      <4> QED BY <4>1
    <3> QED BY <1>4, <2>1, <3>1
  <2> QED BY <2>2, <2>3
<1>6. ASSUME NEW j \in DOMAIN Fragments' PROVE Whole(Fragments[j])'
  <2> DEFINE n == Len(Fragments)
             both == Fragments \o f
  <2>1. /\ n \in Nat /\ DOMAIN both = 1 .. n + m /\ DOMAIN Fragments = 1 .. n
        /\ \A k \in 1 .. n : both[k] = Fragments[k]
        /\ \A k \in n + 1 .. n + m : both[k] = f[k - n]
    BY <1>1
  <2>2. Fragments' = both
    OBVIOUS
  <2> HIDE DEF both
  <2>3. CASE j \in 1 .. n
    <3>1. Whole(Fragments[j]) /\ (Fragments[j])' = Fragments[j]
      BY <2>1, <2>2, <2>3 DEF PartsTile
    <3> QED BY <3>1 DEF Whole
  <2>4. CASE j \notin 1 .. n
    <3>1. j \in n + 1 .. n + m /\ j - n \in 1 .. m
      BY <1>1, <2>1, <2>2, <2>4
    <3>2. Whole(f[j - n]) /\ (Fragments[j])' = f[j - n]
      BY <2>1, <2>2, <3>1
    <3> QED BY <3>2 DEF Whole
  <2> QED BY <2>3, <2>4
<1>7. PartsTile'
  BY <1>5, <1>6 DEF PartsTile
<1> QED BY <1>3, <1>4, <1>7

(* Steps that request nothing.                                             *)
LEMMA NothingAsked ==
    ASSUME TileInv, call' = call, requests' = requests
    PROVE  /\ PartsTile' /\ Items' = Items
           /\ \A i : FragmentsOf(i)' = FragmentsOf(i) /\ Reached(i)' = Reached(i)
<1>1. Items' = Items /\ Fragments' = Fragments
  BY SameCall, SameRequests DEF TileInv, CoreInv
<1>2. PartsTile'
  BY <1>1, SameTiles DEF TileInv
<1> QED BY <1>1, <1>2, SameParts

LEMMA ResultsStay ==
    ASSUME TileInv, call' = call, requests' = requests, results' = results
    PROVE  ResultsReach'
<1>1. Items' = Items /\ \A i : Reached(i)' = Reached(i)
  BY NothingAsked
<1> QED BY <1>1 DEF TileInv, PartsReach, ResultsReach

LEMMA EndTiled ==
    ASSUME TileInv, pc' = "done", UNCHANGED <<call, requests, results>>
    PROVE  PartsTile' /\ PartsReach'
<1>1. PartsTile'
  BY NothingAsked
<1>2. ResultsReach'
  BY ResultsStay
<1>3. ChunksReach' /\ Ahead'
  BY DEF ChunksReach, Ahead, Exchanging
<1> QED BY <1>1, <1>2, <1>3 DEF PartsReach

LEMMA AttemptTiled ==
    ASSUME TileInv, Exchanging, Exchanging',
           UNCHANGED <<call, requests, results, chunks, offset, batch>>
    PROVE  PartsTile' /\ PartsReach'
<1>1. PartsTile' /\ Items' = Items
  BY NothingAsked
<1>2. \A i : FragmentsOf(i)' = FragmentsOf(i) /\ Reached(i)' = Reached(i)
  BY NothingAsked
<1>3. ResultsReach'
  BY ResultsStay
<1>4. Current' = Current /\ pc # "done" /\ pc' # "chunk" /\ pc # "chunk"
  BY DEF Current, Exchanging
<1>5. Chunked' = Chunked /\ Batched' = Batched
  BY <1>4 DEF Chunked, Batched
<1>6. ChunksReach'
  <2>1. Exchanging /\ chunks # <<>> => Reached(Current) = offset + Bytes(batch[1])
    BY DEF TileInv, PartsReach, ChunksReach
  <2>2. (Reached(Current))' = Reached(Current)
    BY <1>2, <1>4 DEF Reached, FragmentsOf
  <2> QED BY <1>4, <2>1, <2>2 DEF ChunksReach
<1>7. Ahead'
  <2>1. \A i \in Current .. Len(Items) :
           \/ Chunked /\ i = Current
           \/ InBatch(i) /\ FragmentsOf(i) = <<batch[i - Current + 1]>>
           \/ ~InBatch(i) /\ FragmentsOf(i) = <<>>
    BY <1>4 DEF TileInv, PartsReach, Ahead
  <2>2. \A i : InBatch(i)' = InBatch(i)
    BY <1>4, <1>5 DEF InBatch
  <2> QED BY <1>1, <1>2, <1>4, <1>5, <2>1, <2>2 DEF Ahead
<1> QED BY <1>1, <1>3, <1>6, <1>7 DEF PartsReach

LEMMA ValidateTiles == ASSUME TileInv, Validate PROVE PartsTile' /\ PartsReach'
<1>1. /\ pc = "validate" /\ UNCHANGED <<call, requests, results, chunks, batch, offset>>
      /\ pc' \in {"plan", "done"}
  BY DEF Validate
<1>2. CASE pc' = "done"
  BY <1>1, <1>2, EndTiled
<1>3. CASE pc' = "plan"
  <2>1. PartsTile' /\ Items' = Items /\ \A i : FragmentsOf(i)' = FragmentsOf(i)
    BY <1>1, NothingAsked
  <2>2. ResultsReach'
    BY <1>1, ResultsStay
  <2>3. ChunksReach'
    BY <1>3 DEF ChunksReach, Exchanging
  <2>4. ~Chunked /\ ~Batched /\ ~Chunked' /\ ~Batched' /\ Current' = Current
    BY <1>1, <1>3 DEF Chunked, Batched, Exchanging, Current
  <2>5. \A i \in Current .. Len(Items) : FragmentsOf(i) = <<>>
    BY <1>1, <2>4 DEF TileInv, PartsReach, Ahead, InBatch
  <2>6. Ahead'
    BY <2>1, <2>4, <2>5 DEF Ahead, InBatch
  <2> QED BY <2>1, <2>2, <2>3, <2>6 DEF PartsReach
<1> QED BY <1>1, <1>2, <1>3

(* A planner that sends nothing yet finds no fragments of what is ahead.   *)
LEMMA NothingAhead ==
    ASSUME TileInv, pc = "plan"
    PROVE  \A i \in Current .. Len(Items) : FragmentsOf(i) = <<>> /\ Reached(i) = 0
<1>1. ~Chunked /\ ~Batched
  BY DEF Chunked, Batched, Exchanging
<1>2. \A i \in Current .. Len(Items) : FragmentsOf(i) = <<>>
  BY <1>1 DEF TileInv, PartsReach, Ahead, InBatch
<1>3. Sizes(<<>>) = <<>>
  BY DEF Sizes
<1>4. Total(Sizes(<<>>)) = 0
  BY <1>3, TotalNothing
<1> QED BY <1>2, <1>4 DEF Reached

LEMMA CutItemTiles == ASSUME TileInv, CutItem PROVE PartsTile' /\ PartsReach'
<1>1. /\ pc = "plan" /\ Current <= Len(Items)
      /\ UNCHANGED <<call, requests, results, batch>>
      /\ (pc' = "chunk" /\ offset' = 0) \/ pc' = "done"
  BY DEF CutItem, Fail, FirstOffset
<1>2. CASE pc' = "done"
  BY <1>1, <1>2, EndTiled
<1>3. CASE pc' = "chunk" /\ offset' = 0
  <2>1. PartsTile' /\ Items' = Items /\ \A i : FragmentsOf(i)' = FragmentsOf(i)
    BY <1>1, NothingAsked
  <2>2. ResultsReach'
    BY <1>1, ResultsStay
  <2>3. Current' = Current /\ Chunked' /\ ~Batched'
    BY <1>1, <1>3 DEF Current, Chunked, Batched, Exchanging
  <2>4. \A i \in Current .. Len(Items) : FragmentsOf(i) = <<>> /\ Reached(i) = 0
    BY <1>1, NothingAhead
  <2>5. Current \in Current .. Len(Items)
    BY <1>1, CoreTyped DEF TileInv
  <2>6. (Reached(Current))' = 0
    <3>1. (Reached(Current))' = Reached(Current)
      BY <2>1, <2>3 DEF Reached, FragmentsOf
    <3> QED BY <2>4, <2>5, <3>1
  <2>7. ChunksReach'
    BY <1>3, <2>6 DEF ChunksReach, Exchanging
  <2>8. Ahead'
    BY <2>1, <2>3, <2>4 DEF Ahead, InBatch
  <2> QED BY <2>1, <2>2, <2>7, <2>8 DEF PartsReach
<1> QED BY <1>1, <1>2, <1>3

LEMMA SendChunkTiles == ASSUME TileInv, SendChunk PROVE PartsTile' /\ PartsReach'
<1> DEFINE g == Fragment(Current, offset, Head(chunks))
           f == <<g>>
           area == Items[Current].area
<1>1. /\ CoreInv /\ TypesHold /\ AllValid /\ pc = "chunk" /\ chunks # <<>> /\ Chunked /\ RequestsFit
      /\ chunks \in Seq(1 .. MaxSection)
  BY DEF TileInv, CoreInv, PhaseHolds, SendChunk, Chunked, TypesHold, TypeOK
<1>2. /\ call \in Calls /\ Len(Items) \in Nat /\ Current \in Nat /\ Len(results) \in Nat
      /\ offset \in Nat /\ requests \in Seq(RequestRecord) /\ pduLength \in 240 .. MaxSection
      /\ DOMAIN results = 1 .. Len(results) /\ Current = Len(results) + 1
  BY <1>1, CoreTyped DEF TypesHold, Current
<1>3. /\ Current <= Len(Items)
      /\ offset + Total(chunks) * ElementSize(area) = Bytes(Items[Current])
      /\ \A k \in DOMAIN chunks : Admissible(area, chunks[k])
      /\ area = "elements" => chunks \in {<<>>, <<Items[Current].count>>}
  BY <1>1 DEF CoreInv, ChunksHold
<1>4. 1 \in DOMAIN chunks /\ Head(chunks) \in Nat /\ Head(chunks) = chunks[1]
  <2> DEFINE S == 1 .. MaxSection
  <2>1. S \subseteq Nat
    BY MaxSectionIs
  <2>2. chunks \in Seq(S)
    BY <1>1
  <2> HIDE DEF S
  <2> QED BY <1>1, <2>1, <2>2, FirstOfList
<1>5. Admissible(area, chunks[1]) /\ (area = "elements" => chunks = <<Items[Current].count>>)
  BY <1>1, <1>3, <1>4
<1>6. Current \in 1 .. Len(Items)
  BY <1>2, <1>3
<1> HIDE DEF g
<1>7. /\ g \in Part /\ f \in Seq(Part) /\ Fits(f, pduLength)
      /\ Mutates => \A x \in Range(f) : x.payload = Bytes(x)
  BY <1>1, <1>3, <1>5, ChunkFits DEF g, AllValid
<1>8. /\ g.item = Current /\ g.offset = offset /\ g.area = area
      /\ g.start = Items[Current].start + offset /\ g.count = Head(chunks)
  BY <1>2, <1>4, <1>6, FragmentIs DEF g
<1>9. Request(f)
  BY DEF SendChunk, g
<1>10. /\ batch' = f /\ pc' = "send"
       /\ requests' = Append(requests, [fragments |-> f, pduLength |-> pduLength])
       /\ UNCHANGED <<call, chunks, offset, results>>
  BY <1>7, <1>9, RequestSends
<1>11. Items' = Items /\ Fragments' = Fragments \o f /\ Current' = Current
  BY <1>1, <1>2, <1>7, <1>10, SameCall, MoreRequests DEF Current
<1>12. Len(f) = 1 /\ f[1] = g
  OBVIOUS
<1>13. Whole(g)
  <2> DEFINE n == Items[Current].count
  <2>1. area = "elements" => chunks[1] = n
    BY <1>5
  <2> QED BY <1>4, <1>8, <2>1 DEF Whole
<1>14. Reached(Current) = offset
  BY <1>1 DEF TileInv, PartsReach, ChunksReach
<1> HIDE DEF f
<1>15. ASSUME NEW k \in 1 .. Len(f)
       PROVE  /\ Whole(f[k]) /\ f[k].offset = Reached(Current + k - 1)
              /\ f[k].start = Items[Current + k - 1].start + f[k].offset
  <2>1. k = 1 /\ Current + k - 1 = Current
    BY <1>2, <1>12
  <2> QED BY <1>8, <1>12, <1>13, <1>14, <2>1
<1>16. Consecutive(f, Current) /\ Current + Len(f) - 1 <= Len(Items)
  BY <1>2, <1>6, <1>8, <1>12 DEF Consecutive
<1>17. PartsTile /\ CoreInv
  BY DEF TileInv
<1>18. /\ PartsTile'
       /\ \A i \in Nat : i < Current \/ Current + Len(f) <= i =>
            FragmentsOf(i)' = FragmentsOf(i) /\ Reached(i)' = Reached(i)
  BY <1>7, <1>11, <1>15, <1>16, <1>17, MoreTiles
<1>19. ASSUME NEW i \in Nat, i = Current PROVE Reached(i)' = Reached(i) + Bytes(g)
  <2>1. 1 \in 1 .. Len(f) /\ i = Current + 1 - 1
    BY <1>2, <1>12, <1>19
  <2>2. Reached(i)' = Reached(i) + Bytes(f[1])
    BY <1>7, <1>11, <1>15, <1>16, <1>17, <2>1, MoreTiles
  <2> QED BY <1>12, <2>2
<1>20. ResultsReach'
  <2>1. \A i \in 1 .. Len(results) : Reached(i)' = Reached(i)
    BY <1>2, <1>18
  <2>2. \A i \in 1 .. Len(results) : results[i].status = "success" => Reached(i) = Bytes(Items[i])
    BY <1>2 DEF TileInv, PartsReach, ResultsReach
  <2> QED BY <1>2, <1>10, <1>11, <2>1, <2>2 DEF ResultsReach
<1>21. ChunksReach'
  <2>1. (Reached(Current))' = offset + Bytes(g)
    <3>1. PICK i \in Nat : i = Current
      BY <1>2
    <3>2. (Reached(Current))' = Reached(i)'
      BY <1>11, <3>1 DEF Reached, FragmentsOf
    <3> QED BY <1>14, <1>19, <3>1, <3>2
  <2> QED BY <1>10, <1>12, <2>1 DEF ChunksReach
<1>22. Ahead'
  <2>1. Chunked' /\ ~Batched'
    BY <1>1, <1>10 DEF Chunked, Batched, Exchanging
  <2>2. ASSUME NEW i \in Current .. Len(Items), i # Current PROVE FragmentsOf(i)' = <<>>
    <3>1. i \in Nat /\ Current + Len(f) <= i
      BY <1>2, <1>12, <2>2
    <3>2. FragmentsOf(i) = <<>>
      BY <1>1, <2>2 DEF TileInv, PartsReach, Ahead, InBatch, Batched, Exchanging
    <3> QED BY <1>18, <3>1, <3>2
  <2> QED BY <1>11, <2>1, <2>2 DEF Ahead, InBatch
<1> QED BY <1>18, <1>20, <1>21, <1>22 DEF PartsReach

LEMMA SendBatchTiles == ASSUME TileInv, SendBatch PROVE PartsTile' /\ PartsReach'
<1> DEFINE f == Batch(Taken)
<1>1. /\ TypesHold /\ AllValid /\ pc = "plan" /\ chunks = <<>> /\ Current <= Len(Items)
      /\ Taken > 0 /\ RequestsFit /\ CoreInv /\ PartsTile
  BY DEF TileInv, CoreInv, PhaseHolds, SendBatch
<1>2. /\ call \in Calls /\ Len(Items) \in Nat /\ Current \in Nat /\ Len(results) \in Nat
      /\ requests \in Seq(RequestRecord) /\ pduLength \in 240 .. MaxSection
      /\ DOMAIN results = 1 .. Len(results) /\ Current = Len(results) + 1
  BY <1>1, CoreTyped DEF TypesHold, Current
<1>3. Taken \in 1 .. Len(Items) - Current + 1 /\ Taken \in Nat
  BY <1>1, <1>2, TakenMeans
<1>4. f \in Seq(Part) /\ Len(f) = Taken /\ Fits(f, pduLength)
  BY <1>1, BatchFits DEF AllValid
<1>5. Mutates => \A x \in Range(f) : x.payload = Bytes(x)
  BY <1>1, BatchFits DEF AllValid
<1>6. Request(f)
  BY DEF SendBatch, Batch
<1>7. ASSUME NEW k \in 1 .. Taken
      PROVE  LET i == Current + k - 1
             IN  /\ i \in 1 .. Len(Items) /\ f[k].item = i /\ f[k].offset = 0
                 /\ f[k].start = Items[i].start /\ f[k].count = Items[i].count
  <2> DEFINE i == Current + k - 1
             g == Fragment(i, 0, Items[i].count)
  <2>1. i \in 1 .. Len(Items)
    BY <1>2, <1>3
  <2>2. f[k] = g
    BY DEF Batch
  <2> HIDE DEF i, g
  <2>3. g.item = i /\ g.offset = 0 /\ g.start = Items[i].start /\ g.count = Items[i].count
    BY <1>2, <2>1, WholeItem DEF g
  <2>4. /\ i \in 1 .. Len(Items) /\ f[k].item = i /\ f[k].offset = 0
        /\ f[k].start = Items[i].start /\ f[k].count = Items[i].count
    <3> HIDE DEF f
    <3> QED BY <2>1, <2>2, <2>3
  <2> HIDE DEF f
  <2> QED BY <2>4 DEF i
<1> HIDE DEF f
<1>8. /\ batch' = f /\ pc' = "send"
      /\ requests' = Append(requests, [fragments |-> f, pduLength |-> pduLength])
      /\ UNCHANGED <<call, chunks, offset, results>>
  BY <1>4, <1>5, <1>6, RequestSends
<1>9. Items' = Items /\ Fragments' = Fragments \o f /\ Current' = Current
  BY <1>1, <1>2, <1>4, <1>8, SameCall, MoreRequests DEF Current
<1>10. \A i \in Current .. Len(Items) : FragmentsOf(i) = <<>> /\ Reached(i) = 0
  BY <1>1, NothingAhead
<1>11. ASSUME NEW k \in 1 .. Len(f)
       PROVE  /\ Whole(f[k]) /\ f[k].offset = Reached(Current + k - 1)
              /\ f[k].start = Items[Current + k - 1].start + f[k].offset
  <2> DEFINE i == Current + k - 1
  <2>1. /\ i \in 1 .. Len(Items) /\ f[k].item = i /\ f[k].offset = 0
        /\ f[k].start = Items[i].start /\ f[k].count = Items[i].count
    BY <1>4, <1>7
  <2>2. i \in Current .. Len(Items)
    BY <1>2, <1>3, <1>4
  <2>3. Items[i].start + 0 = Items[i].start
    <3>1. Items[i].start \in Nat
      BY <1>2, <2>1, CallTyped DEF ItemRecord
    <3> QED BY <3>1
  <2> HIDE DEF i
  <2>4. /\ Whole(f[k]) /\ f[k].offset = Reached(i) /\ f[k].start = Items[i].start + f[k].offset
    BY <1>10, <2>1, <2>2, <2>3 DEF Whole
  <2> QED BY <2>4 DEF i
<1>12. Consecutive(f, Current) /\ Current + Len(f) - 1 <= Len(Items)
  BY <1>2, <1>3, <1>4, <1>7 DEF Consecutive
<1>13. /\ PartsTile'
       /\ \A i \in Nat : i < Current \/ Current + Len(f) <= i =>
            FragmentsOf(i)' = FragmentsOf(i) /\ Reached(i)' = Reached(i)
  BY <1>1, <1>4, <1>9, <1>11, <1>12, MoreTiles
<1>14. ResultsReach'
  <2>1. \A i \in 1 .. Len(results) : Reached(i)' = Reached(i)
    BY <1>2, <1>13
  <2>2. \A i \in 1 .. Len(results) : results[i].status = "success" => Reached(i) = Bytes(Items[i])
    BY <1>2 DEF TileInv, PartsReach, ResultsReach
  <2> QED BY <1>2, <1>8, <1>9, <2>1, <2>2 DEF ResultsReach
<1>15. ChunksReach'
  BY <1>1, <1>8 DEF ChunksReach
<1>16. Ahead'
  <2>1. ~Chunked' /\ Batched'
    BY <1>1, <1>8 DEF Chunked, Batched, Exchanging
  <2>2. ASSUME NEW i \in Current .. Len(Items), i < Current + Len(f)
        PROVE  FragmentsOf(i)' = <<f[i - Current + 1]>>
    <3>1. i \in Nat /\ i - Current + 1 \in 1 .. Len(f) /\ i = Current + (i - Current + 1) - 1
      BY <1>2, <1>3, <1>4, <2>2
    <3>2. FragmentsOf(i)' = FragmentsOf(i) \o <<f[i - Current + 1]>>
      BY <1>1, <1>4, <1>9, <1>11, <1>12, <3>1, MoreTiles
    <3>3. FragmentsOf(i) = <<>> /\ f[i - Current + 1] \in Part
      BY <1>4, <1>10, <3>1
    <3>4. <<>> \o <<f[i - Current + 1]>> = <<f[i - Current + 1]>>
      BY <3>3, ConcatEmptySeq
    <3> QED BY <3>2, <3>3, <3>4
  <2>3. ASSUME NEW i \in Current .. Len(Items), ~(i < Current + Len(f))
        PROVE  FragmentsOf(i)' = <<>>
    <3>1. i \in Nat /\ Current + Len(f) <= i
      BY <1>2, <1>3, <1>4, <2>3
    <3> QED BY <1>10, <1>13, <3>1
  <2> QED BY <1>8, <1>9, <2>1, <2>2, <2>3 DEF Ahead, InBatch
<1> QED BY <1>13, <1>14, <1>15, <1>16 DEF PartsReach

LEMMA ItemCompleteTiles == ASSUME TileInv, ItemComplete PROVE PartsTile' /\ PartsReach'
<1>1. /\ pc = "chunk" /\ chunks = <<>> /\ results' = Complete("success") /\ pc' = "plan"
      /\ UNCHANGED <<call, requests>>
  BY DEF ItemComplete
<1>2. /\ CoreInv /\ results \in Seq(Result) /\ Len(results) \in Nat /\ DOMAIN results = 1 .. Len(results)
      /\ \A i \in DOMAIN results : results[i].item = i
      /\ Reached(Current) = offset
  BY <1>1 DEF TileInv, PartsReach, ChunksReach, CoreInv, TypesHold, PhaseHolds
<1>3. Current \in 1 .. Len(Items) /\ offset = Bytes(Items[Current])
  BY <1>1, <1>2, DoneMeans
<1>4. /\ DOMAIN results' = 1 .. Len(results) + 1 /\ Len(results') = Len(results) + 1
      /\ \A i \in 1 .. Len(results) : results'[i] = results[i]
  BY <1>1, <1>2, OneMoreResult DEF ItemResults
<1>5. PartsTile' /\ Items' = Items /\ \A i : FragmentsOf(i)' = FragmentsOf(i) /\ Reached(i)' = Reached(i)
  BY <1>1, NothingAsked
<1>6. ResultsReach'
  <2> DEFINE s == results'
  <2>1. DOMAIN s = 1 .. Len(results) + 1 /\ \A i \in 1 .. Len(results) : s[i] = results[i]
    BY <1>4
  <2> HIDE DEF s
  <2>2. ASSUME NEW i \in DOMAIN s, s[i].status = "success" PROVE Reached(i) = Bytes(Items[i])
    <3>1. CASE i \in 1 .. Len(results)
      BY <1>2, <2>1, <2>2, <3>1 DEF TileInv, PartsReach, ResultsReach
    <3>2. CASE i = Current
      BY <1>2, <1>3, <3>2
    <3>3. i \in 1 .. Len(results) \/ i = Current
      BY <1>2, <2>1 DEF Current
    <3> QED BY <3>1, <3>2, <3>3
  <2> QED BY <1>5, <2>2 DEF ResultsReach, s
<1>7. ChunksReach'
  BY <1>1 DEF ChunksReach, Exchanging
<1>8. Ahead'
  <2>1. ~Batched /\ ~Chunked' /\ ~Batched' /\ Current' = Current + 1 /\ pc # "done"
    BY <1>1, <1>4 DEF Chunked, Batched, Exchanging, Current
  <2>2. ASSUME NEW i \in Current + 1 .. Len(Items) PROVE FragmentsOf(i) = <<>>
    <3>1. i \in Current .. Len(Items) /\ i # Current
      BY <1>3
    <3> QED BY <2>1, <3>1 DEF TileInv, PartsReach, Ahead, InBatch
  <2> QED BY <1>5, <2>1, <2>2 DEF Ahead, InBatch
<1> QED BY <1>5, <1>6, <1>7, <1>8 DEF PartsReach

LEMMA AnsweredTiles == ASSUME TileInv, Answered PROVE PartsTile' /\ PartsReach'
<1>1. pc = "await" /\ Exchanging
  BY DEF Answered, Exchanging
<1>2. PICK statuses \in Statuses :
        \/ Fail("plcRejected")
        \/ /\ chunks = <<>> /\ BatchAnswered(statuses)
           /\ UNCHANGED <<call, pduLength, batch, requests>>
        \/ /\ chunks # <<>> /\ ChunkAnswered(statuses)
           /\ UNCHANGED <<call, pduLength, batch, requests>>
  BY Zenon DEF Answered
<1>3. CASE Fail("plcRejected")
  BY <1>3, EndTiled DEF Fail
<1>4. /\ CoreInv /\ call \in Calls /\ batch \in Seq(Part) /\ results \in Seq(Result)
      /\ Len(results) \in Nat /\ DOMAIN results = 1 .. Len(results) /\ Len(Items) \in Nat
      /\ \A i \in DOMAIN results : results[i].item = i
      /\ Current = Len(results) + 1 /\ offset \in Nat
      /\ \A i \in 1 .. Len(results) : results[i].status = "success" => Reached(i) = Bytes(Items[i])
  BY CoreTyped DEF TileInv, PartsReach, ResultsReach, CoreInv, PhaseHolds, Current
<1>5. ASSUME UNCHANGED <<call, requests>>
      PROVE  /\ PartsTile' /\ Items' = Items
             /\ \A i : FragmentsOf(i)' = FragmentsOf(i) /\ Reached(i)' = Reached(i)
  BY <1>5, NothingAsked
<1>6. CASE /\ chunks = <<>> /\ BatchAnswered(statuses)
           /\ UNCHANGED <<call, pduLength, batch, requests>>
  <2> DEFINE m == Len(batch)
             s == results'
  <2>1. /\ pc' = "plan" /\ chunks' = chunks
        /\ results' = results \o [i \in DOMAIN batch |->
                                    [item |-> batch[i].item, status |-> statuses[i]]]
    BY <1>6 DEF BatchAnswered
  <2>2. Batched /\ ~Chunked /\ pc # "done"
    BY <1>1, <1>6 DEF Batched, Chunked, Exchanging
  <2>3. /\ Len(s) = Len(results) + m /\ DOMAIN s = 1 .. Len(results) + m
        /\ \A i \in 1 .. Len(results) : s[i] = results[i]
    BY <1>4, <2>1, <2>2, BatchResults
  <2>4. m \in Nat /\ Len(results) + m <= Len(Items) /\ batch = Batch(m)
    BY <1>4, <2>2 DEF CoreInv, BatchHolds
  <2>5. ASSUME NEW i \in Current .. Current + m - 1
        PROVE  Reached(i) = Bytes(Items[i])
    <3> DEFINE k == i - Current + 1
               g == batch[k]
    <3>1. k \in 1 .. m /\ i \in 1 .. Len(Items) /\ i = Current + k - 1 /\ i \in Current .. Len(Items)
          /\ i < Current + m
      BY <1>4, <2>4
    <3>2. FragmentsOf(i) = <<batch[k]>>
      BY <2>2, <3>1 DEF TileInv, PartsReach, Ahead, InBatch
    <3>3. g = Fragment(i, 0, Items[i].count)
      <4> HIDE DEF k
      <4>1. Batch(m)[k] = Fragment(Current + k - 1, 0, Items[Current + k - 1].count)
        BY <3>1 DEF Batch
      <4> QED BY <2>4, <3>1, <4>1
    <3> HIDE DEF g
    <3>4. g \in Part /\ Bytes(g) = Bytes(Items[i])
      BY <1>4, <3>1, <3>3, WholeItem
    <3>5. FragmentsOf(i) = <<>> \o <<g>>
      BY <3>2, <3>4, ConcatEmptySeq DEF g
    <3>6. Extends(FragmentsOf(i), <<>>, g)
      <4>1. <<>> \in Seq(Part)
        OBVIOUS
      <4> QED BY <3>4, <3>5, <4>1, OneMorePart
    <3>7. Total(Sizes(<<>>)) = 0
      <4>1. Sizes(<<>>) = <<>>
        BY DEF Sizes
      <4> QED BY <4>1, TotalNothing
    <3>8. Reached(i) = 0 + Bytes(g)
      BY <3>6, <3>7 DEF Extends, Reached
    <3>9. Bytes(Items[i]) \in Nat
      <4>1. Items[i].area \in Areas /\ Items[i].count \in Nat
        BY <1>4, <3>1, CallTyped DEF ItemRecord
      <4> QED BY <4>1, BytesTyped
    <3> QED BY <3>4, <3>8, <3>9
  <2>6. ResultsReach'
    <3> HIDE DEF s
    <3>1. ASSUME NEW i \in DOMAIN s, s[i].status = "success" PROVE Reached(i) = Bytes(Items[i])
      <4>1. CASE i \in 1 .. Len(results)
        BY <1>4, <2>3, <3>1, <4>1
      <4>2. CASE i \in Current .. Current + m - 1
        BY <2>5, <4>2
      <4>3. i \in 1 .. Len(results) \/ i \in Current .. Current + m - 1
        BY <1>4, <2>3, <2>4
      <4> QED BY <4>1, <4>2, <4>3
    <3> QED BY <1>5, <1>6, <3>1 DEF ResultsReach, s
  <2>7. ChunksReach'
    BY <2>1 DEF ChunksReach, Exchanging
  <2>8. Ahead'
    <3>1. ~Chunked' /\ ~Batched' /\ Current' = Current + m
      <4>1. ~Chunked' /\ ~Batched'
        BY <2>1 DEF Chunked, Batched, Exchanging
      <4>2. Current' = Len(s) + 1
        BY DEF Current
      <4> HIDE DEF s
      <4> QED BY <1>4, <2>3, <2>4, <4>1, <4>2
    <3>2. ASSUME NEW i \in Current + m .. Len(Items) PROVE FragmentsOf(i) = <<>>
      <4>1. i \in Current .. Len(Items) /\ ~(i < Current + m)
        BY <1>4, <2>4
      <4> QED BY <2>2, <4>1 DEF TileInv, PartsReach, Ahead, InBatch
    <3> QED BY <1>5, <1>6, <3>1, <3>2 DEF Ahead, InBatch
  <2> QED BY <1>5, <1>6, <2>6, <2>7, <2>8 DEF PartsReach
<1>7. CASE /\ chunks # <<>> /\ ChunkAnswered(statuses)
           /\ UNCHANGED <<call, pduLength, batch, requests>>
  <2>1. /\ Reached(Current) = offset + Bytes(batch[1]) /\ Chunked /\ ~Batched /\ pc # "done"
    BY <1>1, <1>7 DEF TileInv, PartsReach, ChunksReach, Chunked, Batched, Exchanging
  <2>2. ASSUME NEW i \in Current .. Len(Items), i # Current PROVE FragmentsOf(i) = <<>>
    BY <2>1, <2>2 DEF TileInv, PartsReach, Ahead, InBatch
  <2>3. CASE offset' = offset + Bytes(batch[1]) /\ pc' = "chunk" /\ results' = results
    <3>1. Current' = Current /\ Chunked' /\ ~Batched'
      BY <2>3 DEF Current, Chunked, Batched, Exchanging
    <3>2. ResultsReach'
      BY <1>7, <2>3, ResultsStay
    <3>3. (Reached(Current))' = Reached(Current)
      BY <1>5, <1>7, <3>1 DEF Reached, FragmentsOf
    <3>4. ChunksReach'
      BY <2>1, <2>3, <3>3 DEF ChunksReach, Exchanging
    <3>5. Ahead'
      BY <1>5, <1>7, <2>2, <3>1 DEF Ahead, InBatch
    <3> QED BY <1>5, <1>7, <3>2, <3>4, <3>5 DEF PartsReach
  <2>4. CASE results' = Complete(statuses[1]) /\ ~ContinuesAfter(statuses[1]) /\ pc' = "plan"
    <3> DEFINE s == results'
    <3>1. batch # <<>> /\ 1 \in 1 .. Len(batch)
      <4>1. Len(batch) = 1
        BY <1>1, <1>4, <1>7, ChunkInFlight
      <4> QED BY <4>1
    <3>2. statuses[1] \in ItemResults
      BY <1>4, <3>1, StatusesAre
    <3>3. /\ DOMAIN s = 1 .. Len(results) + 1 /\ Len(s) = Len(results) + 1
          /\ s[Len(results) + 1].status = statuses[1]
          /\ \A i \in 1 .. Len(results) : s[i] = results[i]
      BY <1>4, <2>4, <3>2, OneMoreResult
    <3>4. statuses[1] # "success"
      BY <2>4 DEF ContinuesAfter
    <3>5. ResultsReach'
      <4> HIDE DEF s
      <4>1. ASSUME NEW i \in DOMAIN s, s[i].status = "success" PROVE Reached(i) = Bytes(Items[i])
        <5>1. i \in 1 .. Len(results)
          BY <1>4, <3>3, <3>4, <4>1
        <5> QED BY <1>4, <3>3, <4>1, <5>1
      <4> QED BY <1>5, <1>7, <4>1 DEF ResultsReach, s
    <3>6. ChunksReach'
      BY <2>4 DEF ChunksReach, Exchanging
    <3>7. Ahead'
      <4>1. ~Chunked' /\ ~Batched' /\ Current' = Current + 1
        BY <1>4, <2>4, <3>3 DEF Chunked, Batched, Exchanging, Current
      <4>2. ASSUME NEW i \in Current + 1 .. Len(Items) PROVE FragmentsOf(i) = <<>>
        <5>1. i \in Current .. Len(Items) /\ i # Current
          BY <1>4
        <5> QED BY <2>2, <5>1
      <4> QED BY <1>5, <1>7, <4>1, <4>2 DEF Ahead, InBatch
    <3> QED BY <1>5, <1>7, <3>5, <3>6, <3>7 DEF PartsReach
  <2> QED BY <1>7, <2>3, <2>4 DEF ChunkAnswered
<1> QED BY <1>2, <1>3, <1>6, <1>7

LEMMA NothingYet ==
    ASSUME Init
    PROVE  Fragments = <<>> /\ \A i : FragmentsOf(i) = <<>>
<1>1. Fragments = <<>>
  <2> DEFINE lists == [i \in DOMAIN requests |-> requests[i].fragments]
  <2>1. lists = <<>>
    BY DEF Init
  <2> HIDE DEF lists
  <2>2. FlattenSeq(lists) = <<>>
    BY <2>1, FlattenNothing
  <2> QED BY <2>2 DEF Fragments, lists
<1>2. \A i : FragmentsOf(i) = <<>>
  <2> SUFFICES ASSUME NEW i PROVE FragmentsOf(i) = <<>>
    OBVIOUS
  <2>1. Fragments \in Seq(Part) /\ \A k \in 1 .. Len(Fragments) : Fragments[k] \notin OfItem(i)
    BY <1>1
  <2>2. Chosen(Fragments, OfItem(i)) = <<>>
    BY <2>1, ChosenNone
  <2> QED BY <2>1, <2>2, PartsTyped DEF FragmentsOf
<1> QED BY <1>1, <1>2

LEMMA TilesStart == ASSUME Init PROVE PartsTile /\ PartsReach
<1>1. CoreInv /\ pc = "validate" /\ requests = <<>> /\ results = <<>>
  BY CoreStarts DEF Init
<1>2. Fragments = <<>>
  BY NothingYet
<1>3. \A i : FragmentsOf(i) = <<>>
  BY NothingYet
<1>4. PartsTile
  <2>1. \A i : DOMAIN FragmentsOf(i) = {}
    BY <1>3
  <2>2. DOMAIN Fragments = {}
    BY <1>2
  <2> QED BY <2>1, <2>2 DEF PartsTile, Tiled
<1>5. ResultsReach /\ ChunksReach
  BY <1>1 DEF ResultsReach, ChunksReach, Exchanging
<1>6. Ahead
  BY <1>1, <1>3 DEF Ahead, InBatch, Batched, Exchanging
<1> QED BY <1>4, <1>5, <1>6 DEF PartsReach

LEMMA TilesStutter == ASSUME TileInv, UNCHANGED vars PROVE PartsTile' /\ PartsReach'
<1>1. /\ PartsTile' /\ Items' = Items
      /\ \A i : FragmentsOf(i)' = FragmentsOf(i) /\ Reached(i)' = Reached(i)
  BY NothingAsked DEF vars
<1>2. ResultsReach'
  BY ResultsStay DEF vars
<1>3. /\ Current' = Current /\ Chunked' = Chunked /\ Batched' = Batched /\ Exchanging' = Exchanging
      /\ (Reached(Current))' = Reached(Current)
  BY <1>1 DEF vars, Current, Chunked, Batched, Exchanging, Reached, FragmentsOf
<1>4. ChunksReach'
  BY <1>3 DEF TileInv, PartsReach, ChunksReach, vars
<1>5. Ahead'
  <2>1. \A i : InBatch(i)' = InBatch(i)
    BY <1>3 DEF InBatch, vars
  <2>2. Ahead
    BY DEF TileInv, PartsReach
  <2> QED BY <1>1, <1>3, <2>1, <2>2 DEF Ahead, vars
<1> QED BY <1>1, <1>2, <1>4, <1>5 DEF PartsReach

LEMMA TilesKept == ASSUME TileInv, [Next]_vars PROVE TileInv'
<1>1. CoreInv'
  BY CoreKept DEF TileInv
<1>2. PartsTile' /\ PartsReach'
  <2>1. CASE UNCHANGED vars
    BY <2>1, TilesStutter
  <2>2. CASE Validate
    BY <2>2, ValidateTiles
  <2>3. CASE SendBatch
    BY <2>3, SendBatchTiles
  <2>4. CASE CutItem
    BY <2>4, CutItemTiles
  <2>5. CASE SendChunk
    BY <2>5, SendChunkTiles
  <2>6. CASE ItemComplete
    BY <2>6, ItemCompleteTiles
  <2>7. CASE AllComplete
    BY <2>7, EndTiled DEF AllComplete
  <2>8. CASE Send
    BY <2>8, AttemptTiled DEF Send, Exchanging
  <2>9. CASE Retry
    BY <2>9, AttemptTiled DEF Retry, Exchanging
  <2>10. CASE Answered
    BY <2>10, AnsweredTiles
  <2>11. CASE ExchangeFails
    BY <2>11, EndTiled DEF ExchangeFails, Fail
  <2> QED BY <2>1, <2>2, <2>3, <2>4, <2>5, <2>6, <2>7, <2>8, <2>9, <2>10, <2>11, Zenon DEF Next
<1> QED BY <1>1, <1>2 DEF TileInv

LEMMA Tiling == Spec => []TileInv
<1>1. Init => TileInv
  BY CoreStarts, TilesStart DEF TileInv
<1>2. TileInv /\ [Next]_vars => TileInv'
  BY TilesKept
<1> QED BY <1>1, <1>2, PTL DEF Spec

(* What was requested of an item lies end to end from its start, each part *)
(* at its own address, and is the whole item when the PLC was reported to  *)
(* have taken it; counters and timers are not split; and what fails for an *)
(* argument fails before the first request.                                *)
THEOREM ItemsAlwaysTiled == Spec => []ItemsAreTiled
<1>1. ASSUME TileInv PROVE ItemsAreTiled
  <2>1. /\ CoreInv /\ DOMAIN Items = 1 .. Len(Items) /\ Len(results) \in Nat
        /\ DOMAIN results = 1 .. Len(results)
        /\ \A i : FragmentsOf(i) \in Seq(Part)
    BY <1>1, CoreTyped DEF TileInv
  <2>2. ASSUME NEW i \in DOMAIN Items
        PROVE  \A k \in DOMAIN FragmentsOf(i) :
                  /\ FragmentsOf(i)[k].offset = Before(FragmentsOf(i), k)
                  /\ FragmentsOf(i)[k].start = Items[i].start + Before(FragmentsOf(i), k)
    BY <1>1 DEF TileInv, PartsTile, Tiled
  <2>3. ASSUME NEW i \in DOMAIN Items, i <= Len(results), results[i].status = "success"
        PROVE  Before(FragmentsOf(i), Len(FragmentsOf(i)) + 1) = Bytes(Items[i])
    <3> DEFINE P == FragmentsOf(i)
               sizes == Sizes(P)
    <3>1. i \in DOMAIN results
      BY <2>1, <2>3
    <3>2. Reached(i) = Bytes(Items[i])
      BY <1>1, <2>3, <3>1 DEF TileInv, PartsReach, ResultsReach
    <3>3. P \in Seq(Part) /\ Len(P) \in Nat /\ DOMAIN P = 1 .. Len(P)
      BY <2>1
    <3> HIDE DEF P
    <3>4. SubSeq(sizes, 1, Len(P)) = sizes
      <4>1. sizes = [k \in 1 .. Len(P) |-> Bytes(P[k])]
        BY <3>3 DEF Sizes
      <4>2. SubSeq(sizes, 1, Len(P)) = [k \in 1 .. Len(P) |-> sizes[k]]
        BY <3>3, <4>1
      <4> HIDE DEF sizes
      <4> QED BY <4>1, <4>2
    <3>5. (Len(P) + 1) - 1 = Len(P)
      BY <3>3
    <3>6. Before(P, Len(P) + 1) = Total(sizes)
      BY <3>4, <3>5 DEF Before
    <3> QED BY <3>2, <3>6 DEF Reached, P
  <2>4. \A j \in DOMAIN Fragments : Fragments[j].area = "elements" =>
            Fragments[j].count = Items[Fragments[j].item].count
    BY <1>1 DEF TileInv, PartsTile, Whole
  <2>5. error = "invalidInput" => requests = <<>> /\ ~closed
    BY <2>1 DEF CoreInv, PhaseHolds
  <2> QED BY <2>2, <2>3, <2>4, <2>5 DEF ItemsAreTiled
<1> QED BY <1>1, Tiling, PTL

-----------------------------------------------------------------------------
(* The attempts a progress keeps                                           *)

AnyAttempt == [location : Part, outcome : KnownOutcomes \union {"pending"}]

Regarding(i) == {a \in AnyAttempt : a.location.item = i}
Ending(outcomes) == {a \in AnyAttempt : a.outcome \in outcomes}

LEMMA AttemptsChosen ==
    ASSUME NEW s \in Seq(AnyAttempt), NEW i, NEW outcomes
    PROVE  /\ AttemptsOf(i, s) = Chosen(s, Regarding(i)) /\ AttemptsOf(i, s) \in Seq(AnyAttempt)
           /\ Selected(s, outcomes) = Chosen(s, Ending(outcomes))
           /\ Selected(s, outcomes) \in Seq(AnyAttempt)
<1> DEFINE u == [k \in DOMAIN s |-> IF s[k].location.item = i THEN <<s[k]>> ELSE <<>>]
           v == [k \in DOMAIN s |-> IF s[k].outcome \in outcomes THEN <<s[k]>> ELSE <<>>]
<1>1. DOMAIN s = 1 .. Len(s) /\ \A k \in 1 .. Len(s) : s[k] \in AnyAttempt
  OBVIOUS
<1>2. \A a \in AnyAttempt : Choice(a, Regarding(i)) = IF a.location.item = i THEN <<a>> ELSE <<>>
  BY DEF Choice, Regarding
<1>3. \A a \in AnyAttempt : Choice(a, Ending(outcomes)) = IF a.outcome \in outcomes THEN <<a>> ELSE <<>>
  BY DEF Choice, Ending
<1>4. u = [k \in 1 .. Len(s) |-> Choice(s[k], Regarding(i))]
  BY <1>1, <1>2
<1>5. v = [k \in 1 .. Len(s) |-> Choice(s[k], Ending(outcomes))]
  BY <1>1, <1>3
<1>6. AttemptsOf(i, s) = Chosen(s, Regarding(i))
  BY <1>4 DEF AttemptsOf, Chosen
<1>7. Selected(s, outcomes) = Chosen(s, Ending(outcomes))
  BY <1>5 DEF Selected, Chosen
<1>8. Chosen(s, Regarding(i)) \in Seq(AnyAttempt) /\ Chosen(s, Ending(outcomes)) \in Seq(AnyAttempt)
  BY ChoicesTyped
<1> QED BY <1>6, <1>7, <1>8

LEMMA SelectedConcat ==
    ASSUME NEW s \in Seq(AnyAttempt), NEW t \in Seq(AnyAttempt), NEW outcomes
    PROVE  Selected(s \o t, outcomes) = Selected(s, outcomes) \o Selected(t, outcomes)
<1> DEFINE both == s \o t
<1>1. Chosen(s \o t, Ending(outcomes)) = Chosen(s, Ending(outcomes)) \o Chosen(t, Ending(outcomes))
  BY ChosenConcat
<1>2. /\ Selected(s, outcomes) = Chosen(s, Ending(outcomes))
      /\ Selected(t, outcomes) = Chosen(t, Ending(outcomes))
  BY AttemptsChosen
<1>3. both \in Seq(AnyAttempt)
  OBVIOUS
<1> HIDE DEF both
<1>4. Selected(both, outcomes) = Chosen(both, Ending(outcomes))
  BY <1>3, AttemptsChosen
<1> QED BY <1>1, <1>2, <1>4 DEF both

LEMMA AcknowledgedConcat ==
    ASSUME NEW s \in Seq(AnyAttempt), NEW t \in Seq(AnyAttempt), NEW i
    PROVE  AcknowledgedIn(i, s \o t) = AcknowledgedIn(i, s) \o AcknowledgedIn(i, t)
<1> DEFINE a == Selected(s, ItemResults)
           b == Selected(t, ItemResults)
           both == a \o b
<1>1. a \in Seq(AnyAttempt) /\ b \in Seq(AnyAttempt)
  BY AttemptsChosen
<1>2. Selected(s \o t, ItemResults) = a \o b
  BY SelectedConcat
<1> HIDE DEF a, b
<1>3. Chosen(a \o b, Regarding(i)) = Chosen(a, Regarding(i)) \o Chosen(b, Regarding(i))
  BY <1>1, ChosenConcat, SMTT(30)
<1>4. AttemptsOf(i, a) = Chosen(a, Regarding(i)) /\ AttemptsOf(i, b) = Chosen(b, Regarding(i))
  BY <1>1, AttemptsChosen
<1>5. both \in Seq(AnyAttempt)
  BY <1>1
<1> HIDE DEF both
<1>6. AttemptsOf(i, both) = Chosen(both, Regarding(i))
  BY <1>5, AttemptsChosen
<1>7. AttemptsOf(i, a \o b) = AttemptsOf(i, a) \o AttemptsOf(i, b)
  BY <1>3, <1>4, <1>6 DEF both
<1> QED BY <1>2, <1>7 DEF AcknowledgedIn, a, b

(* Attempts with none of some outcomes, and with only those.               *)
LEMMA SelectedNone ==
    ASSUME NEW s \in Seq(AnyAttempt), NEW outcomes,
           \A k \in 1 .. Len(s) : s[k].outcome \notin outcomes
    PROVE  Selected(s, outcomes) = <<>>
<1>1. \A k \in 1 .. Len(s) : s[k] \notin Ending(outcomes)
  BY DEF Ending
<1>2. Chosen(s, Ending(outcomes)) = <<>>
  BY <1>1, ChosenNone
<1> QED BY <1>2, AttemptsChosen

LEMMA SelectedAll ==
    ASSUME NEW s \in Seq(AnyAttempt), NEW outcomes,
           \A k \in 1 .. Len(s) : s[k].outcome \in outcomes
    PROVE  Selected(s, outcomes) = s
<1>1. \A k \in 1 .. Len(s) : s[k] \in Ending(outcomes)
  <2>1. \A k \in 1 .. Len(s) : s[k] \in AnyAttempt
    OBVIOUS
  <2> QED BY <2>1 DEF Ending
<1>2. Chosen(s, Ending(outcomes)) = s
  BY <1>1, ChosenAll
<1> QED BY <1>2, AttemptsChosen

LEMMA NothingAcknowledged ==
    ASSUME NEW s \in Seq(AnyAttempt), NEW i, \A k \in 1 .. Len(s) : s[k].outcome \notin ItemResults
    PROVE  AcknowledgedIn(i, s) = <<>>
<1>1. Selected(s, ItemResults) = <<>>
  BY SelectedNone
<1> DEFINE none == <<>>
<1>2. none \in Seq(AnyAttempt) /\ \A k \in 1 .. Len(none) : none[k] \notin Regarding(i)
  OBVIOUS
<1> HIDE DEF none
<1>3. Chosen(none, Regarding(i)) = <<>>
  BY <1>2, ChosenNone
<1>4. AttemptsOf(i, none) = <<>>
  BY <1>2, <1>3, AttemptsChosen
<1> QED BY <1>1, <1>4 DEF AcknowledgedIn, none

(* A batch of consecutive items that was answered tells of each one part.  *)
LEMMA BatchAcknowledged ==
    ASSUME NEW s \in Seq(AnyAttempt), NEW first \in Nat, NEW i \in Nat,
           \A k \in 1 .. Len(s) : /\ s[k].outcome \in ItemResults
                                  /\ s[k].location.item = first + k - 1
    PROVE  AcknowledgedIn(i, s) =
             IF first <= i /\ i < first + Len(s) THEN <<s[i - first + 1]>> ELSE <<>>
<1>1. Selected(s, ItemResults) = s
  BY SelectedAll
<1>2. AcknowledgedIn(i, s) = Chosen(s, Regarding(i))
  BY <1>1, AttemptsChosen DEF AcknowledgedIn
<1>3. Len(s) \in Nat /\ \A k \in 1 .. Len(s) : s[k] \in Regarding(i) <=> k = i - first + 1
  <2>1. Len(s) \in Nat /\ \A k \in 1 .. Len(s) : s[k] \in AnyAttempt
    OBVIOUS
  <2> QED BY <2>1 DEF Regarding
<1>4. CASE first <= i /\ i < first + Len(s)
  <2> DEFINE at == i - first + 1
  <2>1. at \in 1 .. Len(s)
    BY <1>3, <1>4
  <2>2. \A k \in 1 .. Len(s) : s[k] \in Regarding(i) <=> k = at
    BY <1>3
  <2> HIDE DEF at
  <2>3. Chosen(s, Regarding(i)) = <<s[at]>>
    BY <2>1, <2>2, ChosenOne
  <2> QED BY <1>2, <1>4, <2>3 DEF at
<1>5. CASE ~(first <= i /\ i < first + Len(s))
  <2>1. \A k \in 1 .. Len(s) : s[k] \notin Regarding(i)
    BY <1>3, <1>5
  <2>2. Chosen(s, Regarding(i)) = <<>>
    BY <2>1, ChosenNone
  <2> QED BY <1>2, <1>5, <2>2
<1> QED BY <1>4, <1>5

-----------------------------------------------------------------------------
(* Accounting                                                              *)

LEMMA BatchInFlight ==
    ASSUME CoreInv, Exchanging
    PROVE  /\ batch \in Seq(Part) /\ batch # <<>> /\ Consecutive(batch, Current)
           /\ Len(batch) \in Nat /\ 1 \in 1 .. Len(batch) /\ Current + Len(batch) - 1 <= Len(Items)
<1>1. batch \in Seq(Part) /\ Current \in Nat /\ Len(Items) \in Nat
  BY CoreTyped
<1>2. CASE chunks = <<>>
  <2>1. /\ batch # <<>> /\ Current + Len(batch) - 1 <= Len(Items) /\ batch = Batch(Len(batch))
    BY <1>2 DEF CoreInv, BatchHolds, Batched
  <2>2. ASSUME NEW k \in 1 .. Len(batch) PROVE batch[k].item = Current + k - 1
    <3>1. Batch(Len(batch))[k] = Fragment(Current + k - 1, 0, Items[Current + k - 1].count)
      BY DEF Batch
    <3>2. batch[k] = Fragment(Current + k - 1, 0, Items[Current + k - 1].count)
      BY <2>1, <3>1
    <3> QED BY <3>2 DEF Fragment
  <2> QED BY <1>1, <2>1, <2>2 DEF Consecutive
<1>3. CASE chunks # <<>>
  <2>1. /\ batch = <<Fragment(Current, offset, Head(chunks))>> /\ batch[1].item = Current
        /\ Current \in 1 .. Len(Items)
    BY <1>3, ChunkInFlight
  <2>2. Len(batch) = 1
    BY <2>1
  <2> QED BY <1>1, <2>1, <2>2 DEF Consecutive
<1> QED BY <1>2, <1>3

(* What an outcome of the pending attempt adds to the history.             *)
SettledWith(locations, outcomes) ==
    [k \in 1 .. Len(locations) |-> [location |-> locations[k], outcome |-> outcomes[k]]]

LEMMA SettledAdds ==
    ASSUME NEW locations \in Seq(Part), NEW outcomes, NEW S,
           \A k \in 1 .. Len(locations) : outcomes[k] \in S,
           NEW a, a = SettledWith(locations, outcomes)
    PROVE  /\ a \in Seq([location : Part, outcome : S]) /\ Len(a) = Len(locations)
           /\ DOMAIN a = 1 .. Len(locations)
           /\ \A k \in 1 .. Len(locations) : /\ a[k].location = locations[k]
                                             /\ a[k].outcome = outcomes[k]
           /\ Placed(a) = Range(locations)
<1>1. /\ Len(locations) \in Nat /\ DOMAIN locations = 1 .. Len(locations)
      /\ \A k \in 1 .. Len(locations) : locations[k] \in Part
  OBVIOUS
<1>2. DOMAIN a = 1 .. Len(locations) /\ \A k \in 1 .. Len(locations) :
         a[k] = [location |-> locations[k], outcome |-> outcomes[k]]
  BY DEF SettledWith
<1>3. a \in Seq([location : Part, outcome : S]) /\ Len(a) = Len(locations)
  <2> DEFINE R == [location : Part, outcome : S]
             n == Len(locations)
  <2>1. a \in [1 .. n -> R] /\ n \in Nat
    BY <1>1 DEF SettledWith
  <2> HIDE DEF R, n
  <2>2. a \in Seq(R) /\ Len(a) = n
    BY <2>1
  <2> QED BY <2>2 DEF R, n
<1>4. \A k \in 1 .. Len(locations) : a[k].location = locations[k] /\ a[k].outcome = outcomes[k]
  BY <1>2
<1>5. Placed(a) = Range(locations)
  BY <1>1, <1>2, <1>4 DEF Placed, Range
<1> QED BY <1>2, <1>3, <1>4, <1>5

LEMMA PlacedConcat ==
    ASSUME NEW S, NEW s \in Seq(S), NEW t \in Seq(S)
    PROVE  /\ Placed(s \o t) = Placed(s) \union Placed(t)
           /\ Range(s \o t) = Range(s) \union Range(t)
<1> DEFINE both == s \o t
<1>1. /\ DOMAIN both = 1 .. Len(s) + Len(t) /\ DOMAIN s = 1 .. Len(s) /\ DOMAIN t = 1 .. Len(t)
      /\ Len(s) \in Nat /\ Len(t) \in Nat
      /\ \A k \in 1 .. Len(s) : both[k] = s[k]
      /\ \A k \in Len(s) + 1 .. Len(s) + Len(t) : both[k] = t[k - Len(s)]
  <2>1. both \in Seq(S) /\ Len(both) = Len(s) + Len(t)
    BY ConcatProperties
  <2> QED BY <2>1, ConcatProperties
<1> HIDE DEF both
<1>2. Range(both) = Range(s) \union Range(t)
  <2>1. ASSUME NEW x \in Range(both) PROVE x \in Range(s) \union Range(t)
    <3>1. PICK k \in 1 .. Len(s) + Len(t) : x = both[k]
      BY <1>1 DEF Range
    <3>2. CASE k \in 1 .. Len(s)
      BY <1>1, <3>1, <3>2 DEF Range
    <3>3. CASE k \in Len(s) + 1 .. Len(s) + Len(t)
      <4>1. k - Len(s) \in 1 .. Len(t)
        BY <1>1, <3>3
      <4> QED BY <1>1, <3>1, <3>3, <4>1 DEF Range
    <3> QED BY <1>1, <3>2, <3>3
  <2>2. ASSUME NEW x \in Range(s) PROVE x \in Range(both)
    <3>1. PICK k \in 1 .. Len(s) : x = s[k]
      BY <1>1 DEF Range
    <3>2. k \in 1 .. Len(s) + Len(t)
      BY <1>1
    <3> QED BY <1>1, <3>1, <3>2 DEF Range
  <2>3. ASSUME NEW x \in Range(t) PROVE x \in Range(both)
    <3>1. PICK k \in 1 .. Len(t) : x = t[k]
      BY <1>1 DEF Range
    <3>2. /\ Len(s) + k \in 1 .. Len(s) + Len(t) /\ Len(s) + k \in Len(s) + 1 .. Len(s) + Len(t)
          /\ (Len(s) + k) - Len(s) = k
      BY <1>1
    <3> QED BY <1>1, <3>1, <3>2 DEF Range
  <2> QED BY <2>1, <2>2, <2>3
<1>3. Placed(both) = Placed(s) \union Placed(t)
  BY <1>2 DEF Placed
<1> QED BY <1>2, <1>3 DEF both

LEMMA AttemptsAreAny ==
    ASSUME NEW s \in Seq(Attempt)
    PROVE  s \in Seq(AnyAttempt)
<1>1. Attempt \subseteq AnyAttempt
  BY DEF Attempt, AnyAttempt
<1> QED BY <1>1

(* A history that was added to without an answer tells the same.           *)
LEMMA TellsTheSame ==
    ASSUME NEW h \in Seq(Attempt), NEW a \in Seq(AnyAttempt),
           \A k \in 1 .. Len(a) : a[k].outcome \notin ItemResults
    PROVE  \A i : AcknowledgedIn(i, h \o a) = AcknowledgedIn(i, h)
<1> SUFFICES ASSUME NEW i PROVE AcknowledgedIn(i, h \o a) = AcknowledgedIn(i, h)
  OBVIOUS
<1>1. h \in Seq(AnyAttempt)
  BY AttemptsAreAny
<1>2. AcknowledgedIn(i, h \o a) = AcknowledgedIn(i, h) \o AcknowledgedIn(i, a)
  BY <1>1, AcknowledgedConcat
<1>3. AcknowledgedIn(i, a) = <<>>
  BY NothingAcknowledged
<1>4. AcknowledgedIn(i, h) \in Seq(AnyAttempt)
  <2> DEFINE s == Selected(h, ItemResults)
  <2>1. s \in Seq(AnyAttempt)
    BY <1>1, AttemptsChosen
  <2> HIDE DEF s
  <2>2. AttemptsOf(i, s) \in Seq(AnyAttempt)
    BY <2>1, AttemptsChosen
  <2> QED BY <2>2 DEF AcknowledgedIn, s
<1> QED BY <1>2, <1>3, <1>4, ConcatEmptySeq

LEMMA ResultsTellTheSame ==
    ASSUME CoreInv, ResultsAccounted, UNCHANGED <<call, requests, results>>,
           \A i : AcknowledgedIn(i, progress'.history) = AcknowledgedIn(i, progress.history)
    PROVE  ResultsAccounted'
<1>1. Fragments' = Fragments
  BY SameRequests DEF CoreInv
<1>2. \A i : FragmentsOf(i)' = FragmentsOf(i)
  BY <1>1, SameParts
<1> QED BY <1>2 DEF ResultsAccounted

LEMMA AheadTellsTheSame ==
    ASSUME CoreInv, AheadAccounted, UNCHANGED <<call, requests, results>>, pc # "done",
           \A i : AcknowledgedIn(i, progress'.history) = AcknowledgedIn(i, progress.history),
           \A i : InFlight(i)' = InFlight(i)
    PROVE  AheadAccounted'
<1>1. Fragments' = Fragments /\ Items' = Items
  BY SameRequests, SameCall DEF CoreInv
<1>2. (\A i : FragmentsOf(i)' = FragmentsOf(i)) /\ Current' = Current
  BY <1>1, SameParts DEF Current
<1>3. \A i \in Current .. Len(Items) :
        /\ Tells(AcknowledgedIn(i, progress.history), Locations(AcknowledgedIn(i, progress.history)),
                 "success")
        /\ Locations(AcknowledgedIn(i, progress.history)) \o InFlight(i) = FragmentsOf(i)
  BY DEF AheadAccounted
<1> QED BY <1>1, <1>2, <1>3 DEF AheadAccounted

(* Before its end a call has not failed, and nothing was refused.          *)
LEMMA NotFailedYet ==
    ASSUME CoreInv, pc # "done"
    PROVE  error = "none" /\ ~Lost
BY DEF CoreInv, PhaseHolds, Lost

(* Steps that settle no attempt and leave the parts in flight as they are. *)
LEMMA QuietAccounts ==
    ASSUME CoreInv, AccountHolds, pc # "done", UNCHANGED <<call, requests, results, batch>>,
           Mutates => progress'.history = progress.history, error' # "plcRejected",
           pc' # "done" => (Exchanging' <=> Exchanging),
           (Exchanging' \/ Lost') <=> Exchanging
    PROVE  AccountHolds'
<1>1. Mutates' = Mutates
  BY SameCall
<1> SUFFICES ASSUME Mutates PROVE AccountHolds'
  BY <1>1 DEF AccountHolds
<1>2. ResultsAccounted /\ AheadAccounted /\ PartsAccounted /\ RejectionTold
  BY DEF AccountHolds
<1>3. progress'.history = progress.history /\ Fragments' = Fragments /\ error = "none" /\ ~Lost
  BY SameRequests, NotFailedYet DEF CoreInv
<1>4. ResultsAccounted'
  BY <1>2, <1>3, ResultsTellTheSame
<1>5. AheadAccounted'
  <2>1. CASE pc' = "done"
    BY <2>1 DEF AheadAccounted
  <2>2. CASE pc' # "done"
    <3>1. \A i : InFlight(i)' = InFlight(i)
      BY <2>2 DEF InFlight
    <3> QED BY <1>2, <1>3, <3>1, AheadTellsTheSame
  <2> QED BY <2>1, <2>2
<1>6. PartsAccounted'
  BY <1>2, <1>3 DEF PartsAccounted
<1>7. RejectionTold'
  BY <1>2, <1>3 DEF RejectionTold
<1> QED BY <1>4, <1>5, <1>6, <1>7 DEF AccountHolds

(* The pending attempt, that may be none, is replayed or refused.          *)
LEMMA FinishAdds ==
    ASSUME CoreInv, Mutates, NEW outcome \in {"replayedUnknown", "globalRejected"},
           progress' = Finish(progress, outcome)
    PROVE  \E a \in Seq(Attempt) :
             /\ progress'.history = progress.history \o a
             /\ \A k \in 1 .. Len(a) : a[k].outcome = outcome
             /\ Placed(a) = Range(progress.pending) /\ Len(a) = Len(progress.pending)
             /\ \A i : AcknowledgedIn(i, progress'.history) = AcknowledgedIn(i, progress.history)
             /\ Placed(progress'.history) = Placed(progress.history) \union Placed(a)
             /\ Range(progress'.history) = Range(progress.history) \union Range(a)
<1> DEFINE p == progress.pending
           h == progress.history
           outcomes == [i \in DOMAIN p |-> outcome]
           a == SettledWith(p, outcomes)
<1>1. p \in Seq(Part) /\ h \in Seq(Attempt) /\ DOMAIN p = 1 .. Len(p) /\ Len(p) \in Nat
  BY DEF CoreInv, TypesHold
<1>2. progress'.history = h \o a
  BY <1>1 DEF Finish, Settled, SettledWith
<1>3. \A k \in 1 .. Len(p) : outcomes[k] \in {outcome} /\ outcomes[k] = outcome
  BY <1>1
<1> HIDE DEF a, h, outcomes
<1>4. /\ a \in Seq([location : Part, outcome : {outcome}]) /\ Len(a) = Len(p)
      /\ \A k \in 1 .. Len(p) : a[k].outcome = outcomes[k]
      /\ Placed(a) = Range(p)
  <2> DEFINE S == {outcome}
  <2>1. p \in Seq(Part) /\ a = SettledWith(p, outcomes)
    BY <1>1 DEF a
  <2>2. \A k \in 1 .. Len(p) : outcomes[k] \in S
    BY <1>3
  <2> HIDE DEF p, S
  <2>3. a \in Seq([location : Part, outcome : S]) /\ Len(a) = Len(p)
    BY <2>1, <2>2, SettledAdds
  <2>4. \A k \in 1 .. Len(p) : a[k].outcome = outcomes[k]
    BY <2>1 DEF SettledWith
  <2>5. Placed(a) = Range(p)
    BY <2>1, <2>2, SettledAdds
  <2> QED BY <2>3, <2>4, <2>5 DEF S
<1>5. a \in Seq(Attempt)
  <2> DEFINE R == [location : Part, outcome : {outcome}]
  <2>1. R \subseteq Attempt
    BY DEF Attempt, KnownOutcomes
  <2>2. a \in Seq(R)
    BY <1>4
  <2> HIDE DEF R
  <2> QED BY <2>1, <2>2
<1>6. \A k \in 1 .. Len(a) : a[k].outcome = outcome
  BY <1>3, <1>4
<1>7. \A i : AcknowledgedIn(i, h \o a) = AcknowledgedIn(i, h)
  <2>1. \A k \in 1 .. Len(a) : a[k].outcome \notin ItemResults
    BY <1>6 DEF ItemResults
  <2>2. a \in Seq(AnyAttempt)
    BY <1>5, AttemptsAreAny
  <2> QED BY <1>1, <2>1, <2>2, TellsTheSame DEF h
<1>8. /\ Placed(h \o a) = Placed(h) \union Placed(a) /\ Range(h \o a) = Range(h) \union Range(a)
  <2>1. h \in Seq(Attempt)
    BY <1>1 DEF h
  <2> QED BY <1>5, <2>1, PlacedConcat
<1> QED BY <1>2, <1>4, <1>5, <1>6, <1>7, <1>8 DEF h

LEMMA RetryAccounts == ASSUME CoreInv, AccountHolds, Retry PROVE AccountHolds'
<1>1. /\ Exchanging /\ Exchanging' /\ pc # "done" /\ UNCHANGED <<call, requests, results, batch, error>>
      /\ progress' = IF Mutates THEN Replay(progress) ELSE progress
  BY DEF Retry, Exchanging
<1>2. Mutates' = Mutates
  BY <1>1, SameCall
<1> SUFFICES ASSUME Mutates PROVE AccountHolds'
  BY <1>2 DEF AccountHolds
<1>3. ResultsAccounted /\ AheadAccounted /\ PartsAccounted /\ RejectionTold
  BY DEF AccountHolds
<1>4. progress' = Finish(progress, "replayedUnknown")
  BY <1>1 DEF Replay
<1>5. PICK a \in Seq(Attempt) :
        /\ \A k \in 1 .. Len(a) : a[k].outcome = "replayedUnknown"
        /\ Placed(a) = Range(progress.pending)
        /\ \A i : AcknowledgedIn(i, progress'.history) = AcknowledgedIn(i, progress.history)
        /\ Placed(progress'.history) = Placed(progress.history) \union Placed(a)
        /\ Range(progress'.history) = Range(progress.history) \union Range(a)
  BY <1>4, FinishAdds
<1>6. Fragments' = Fragments /\ error = "none" /\ ~Lost
  BY <1>1, SameRequests, NotFailedYet DEF CoreInv
<1>7. ResultsAccounted'
  BY <1>1, <1>3, <1>5, ResultsTellTheSame
<1>8. AheadAccounted'
  <2>1. \A i : InFlight(i)' = InFlight(i)
    BY <1>1 DEF InFlight
  <2> QED BY <1>1, <1>3, <1>5, <2>1, AheadTellsTheSame
<1>9. PartsAccounted'
  <2>1. Range(progress.pending) \subseteq Range(batch)
    <3>1. progress.pending \in {<<>>, batch}
      BY DEF CoreInv, PendingHolds
    <3> QED BY <3>1 DEF Range
  <2> QED BY <1>1, <1>3, <1>5, <1>6, <2>1 DEF PartsAccounted
<1>10. RejectionTold'
  <2>1. \A x \in Range(a) : x.outcome = "replayedUnknown"
    <3>1. DOMAIN a = 1 .. Len(a)
      OBVIOUS
    <3> QED BY <1>5, <3>1 DEF Range
  <2> QED BY <1>1, <1>3, <1>5, <1>6, <2>1 DEF RejectionTold
<1> QED BY <1>7, <1>8, <1>9, <1>10 DEF AccountHolds

LEMMA RejectAccounts ==
    ASSUME CoreInv, AccountHolds, pc = "await", Fail("plcRejected")
    PROVE  AccountHolds'
<1>1. /\ Exchanging /\ ~Exchanging' /\ pc # "done" /\ pc' = "done"
      /\ UNCHANGED <<call, requests, results, batch>>
      /\ error' = "plcRejected" /\ ~Lost'
      /\ progress' = IF Mutates THEN GlobalReject(progress) ELSE progress
  BY DEF Fail, Exchanging, Lost
<1>2. Mutates' = Mutates
  BY <1>1, SameCall
<1> SUFFICES ASSUME Mutates PROVE AccountHolds'
  BY <1>2 DEF AccountHolds
<1>3. ResultsAccounted /\ PartsAccounted
  BY DEF AccountHolds
<1>4. progress' = Finish(progress, "globalRejected")
  BY <1>1 DEF GlobalReject
<1>5. PICK a \in Seq(Attempt) :
        /\ \A k \in 1 .. Len(a) : a[k].outcome = "globalRejected"
        /\ Placed(a) = Range(progress.pending) /\ Len(a) = Len(progress.pending)
        /\ \A i : AcknowledgedIn(i, progress'.history) = AcknowledgedIn(i, progress.history)
        /\ Placed(progress'.history) = Placed(progress.history) \union Placed(a)
        /\ Range(progress'.history) = Range(progress.history) \union Range(a)
  BY <1>4, FinishAdds
<1>6. Fragments' = Fragments /\ progress.pending = batch /\ 1 \in 1 .. Len(batch)
  BY <1>1, SameRequests, BatchInFlight DEF CoreInv, PendingHolds
<1>7. ResultsAccounted'
  BY <1>1, <1>3, <1>5, ResultsTellTheSame
<1>8. AheadAccounted'
  BY <1>1 DEF AheadAccounted
<1>9. PartsAccounted'
  BY <1>1, <1>3, <1>5, <1>6 DEF PartsAccounted
<1>10. RejectionTold'
  <2>1. a[1] \in Range(a) /\ a[1].outcome = "globalRejected"
    <3>1. 1 \in DOMAIN a /\ 1 \in 1 .. Len(a)
      BY <1>5, <1>6
    <3> QED BY <1>5, <3>1 DEF Range
  <2> QED BY <1>1, <1>5, <2>1 DEF RejectionTold
<1> QED BY <1>7, <1>8, <1>9, <1>10 DEF AccountHolds

LEMMA AcknowledgedTyped ==
    ASSUME NEW h \in Seq(AnyAttempt), NEW i
    PROVE  AcknowledgedIn(i, h) \in Seq(AnyAttempt)
<1> DEFINE s == Selected(h, ItemResults)
<1>1. s \in Seq(AnyAttempt)
  BY AttemptsChosen
<1> HIDE DEF s
<1>2. AttemptsOf(i, s) \in Seq(AnyAttempt)
  BY <1>1, AttemptsChosen
<1> QED BY <1>2 DEF AcknowledgedIn, s

LEMMA LocationsTyped ==
    ASSUME NEW s \in Seq(AnyAttempt)
    PROVE  Locations(s) \in Seq(Part) /\ Len(Locations(s)) = Len(s)
<1> DEFINE n == Len(s)
<1>1. n \in Nat /\ DOMAIN s = 1 .. n /\ \A k \in 1 .. n : s[k] \in AnyAttempt
  OBVIOUS
<1>2. Locations(s) \in [1 .. n -> Part]
  BY <1>1 DEF Locations, AnyAttempt
<1> HIDE DEF n
<1>3. Locations(s) \in Seq(Part) /\ Len(Locations(s)) = n
  BY <1>1, <1>2
<1> QED BY <1>3 DEF n

(* One more attempt decides what an item's attempts tell.                  *)
LEMMA OneMoreTold ==
    ASSUME NEW s \in Seq(AnyAttempt), NEW a \in AnyAttempt, Tells(s, Locations(s), "success"),
           NEW t, t = s \o <<a>>
    PROVE  Tells(t, Locations(s) \o <<a.location>>, a.outcome)
<1> DEFINE n == Len(s)
           P == Locations(s)
           Q == P \o <<a.location>>
<1>1. /\ n \in Nat /\ DOMAIN s = 1 .. n /\ DOMAIN t = 1 .. n + 1 /\ Len(t) = n + 1
      /\ t[n + 1] = a /\ \A k \in 1 .. n : t[k] = s[k]
  <2>1. t = Append(s, a)
    BY AppendIsConcat
  <2> QED BY <2>1, AppendProperties
<1>2. /\ P \in Seq(Part) /\ Len(P) = n /\ \A k \in 1 .. n : P[k] = s[k].location
  BY <1>1, LocationsTyped DEF Locations
<1>3. a.location \in Part
  BY DEF AnyAttempt
<1> HIDE DEF P
<1>4. /\ DOMAIN Q = 1 .. n + 1 /\ Q[n + 1] = a.location /\ \A k \in 1 .. n : Q[k] = P[k]
      /\ Q \in Seq(Part)
  <2> DEFINE x == a.location
  <2>1. x \in Part /\ P \in Seq(Part) /\ Len(P) = n
    BY <1>2, <1>3
  <2> HIDE DEF x, n
  <2>2. P \o <<x>> = Append(P, x)
    BY <2>1, AppendIsConcat
  <2>3. Append(P, x) \in Seq(Part) /\ Len(Append(P, x)) = n + 1 /\ Append(P, x)[n + 1] = x
        /\ \A k \in 1 .. n : Append(P, x)[k] = P[k]
    BY <2>1, AppendProperties
  <2> DEFINE r == Append(P, x)
  <2>4. r \in Seq(Part) /\ Len(r) = n + 1
    BY <2>3
  <2> HIDE DEF r
  <2>5. DOMAIN r = 1 .. n + 1
    BY <2>4
  <2>6. Q = r
    BY <2>2 DEF r, x
  <2> HIDE DEF Q
  <2>7. r[n + 1] = x /\ \A k \in 1 .. n : r[k] = P[k]
    BY <2>3 DEF r
  <2> QED BY <2>4, <2>5, <2>6, <2>7 DEF x
<1> HIDE DEF Q
<1>5. Locations(t) = Q
  <2>1. Locations(t) = [k \in 1 .. n + 1 |-> t[k].location]
    BY <1>1 DEF Locations
  <2>2. ASSUME NEW k \in 1 .. n + 1 PROVE t[k].location = Q[k]
    <3>1. CASE k \in 1 .. n
      BY <1>1, <1>2, <1>4, <3>1
    <3>2. CASE k = n + 1
      BY <1>1, <1>4, <3>2
    <3> QED BY <1>1, <3>1, <3>2
  <2>3. Q = [k \in 1 .. n + 1 |-> Q[k]]
    BY <1>4
  <2> HIDE DEF n
  <2> QED BY <2>1, <2>2, <2>3
<1>6. ASSUME NEW k \in DOMAIN t
      PROVE  t[k].outcome = IF k = Len(t) THEN a.outcome ELSE "success"
  <2>1. CASE k = n + 1
    BY <1>1, <2>1
  <2>2. CASE k \in 1 .. n
    <3>1. s[k].outcome = "success"
      BY <1>1, <2>2 DEF Tells
    <3>2. k # n + 1
      BY <1>1, <2>2
    <3> QED BY <1>1, <2>2, <3>1, <3>2
  <2> QED BY <1>1, <2>1, <2>2
<1> QED BY <1>5, <1>6 DEF Tells, Q, P

LEMMA HistoryTyped ==
    ASSUME CoreInv
    PROVE  /\ progress.history \in Seq(Attempt) /\ progress.history \in Seq(AnyAttempt)
           /\ progress.pending \in Seq(Part)
           /\ \A i : /\ AcknowledgedIn(i, progress.history) \in Seq(AnyAttempt)
                     /\ Locations(AcknowledgedIn(i, progress.history)) \in Seq(Part)
<1>1. progress.history \in Seq(Attempt) /\ progress.pending \in Seq(Part)
  BY DEF CoreInv, TypesHold
<1>2. progress.history \in Seq(AnyAttempt)
  BY <1>1, AttemptsAreAny
<1>3. \A i : AcknowledgedIn(i, progress.history) \in Seq(AnyAttempt)
  BY <1>2, AcknowledgedTyped
<1>4. \A i : Locations(AcknowledgedIn(i, progress.history)) \in Seq(Part)
  BY <1>3, LocationsTyped
<1> QED BY <1>1, <1>2, <1>3, <1>4

(* While nothing is in flight, what is ahead was acknowledged altogether.  *)
LEMMA AheadTells ==
    ASSUME CoreInv, AheadAccounted, pc # "done", ~Exchanging, NEW i \in Current .. Len(Items)
    PROVE  Tells(AcknowledgedIn(i, progress.history), FragmentsOf(i), "success")
<1> DEFINE settled == AcknowledgedIn(i, progress.history)
<1>1. Tells(settled, Locations(settled), "success") /\ Locations(settled) \o InFlight(i) = FragmentsOf(i)
  BY DEF AheadAccounted
<1>2. InFlight(i) = <<>>
  BY DEF InFlight
<1>3. Locations(settled) \in Seq(Part)
  BY HistoryTyped
<1> HIDE DEF settled
<1>4. Locations(settled) \o <<>> = Locations(settled)
  BY <1>3, ConcatEmptySeq
<1>5. FragmentsOf(i) = Locations(settled)
  BY <1>1, <1>2, <1>4
<1> QED BY <1>1, <1>5 DEF settled

LEMMA AheadFromTells ==
    ASSUME CoreInv, UNCHANGED <<call, requests>>, ~Exchanging', NEW first, Current' = first,
           \A i \in first .. Len(Items) :
              Tells(AcknowledgedIn(i, progress'.history), FragmentsOf(i), "success")
    PROVE  AheadAccounted'
<1>1. Fragments' = Fragments /\ Items' = Items
  BY SameRequests, SameCall DEF CoreInv
<1>2. \A i : FragmentsOf(i)' = FragmentsOf(i) /\ FragmentsOf(i) \in Seq(Part) /\ InFlight(i)' = <<>>
  BY <1>1, SameParts, CoreTyped DEF InFlight
<1>3. ASSUME NEW i \in first .. Len(Items), NEW settled,
             settled = AcknowledgedIn(i, progress'.history)
      PROVE  /\ Tells(settled, Locations(settled), "success")
             /\ Locations(settled) \o <<>> = FragmentsOf(i)
  <2>1. Locations(settled) = FragmentsOf(i) /\ Tells(settled, Locations(settled), "success")
    BY <1>3 DEF Tells
  <2>2. FragmentsOf(i) \o <<>> = FragmentsOf(i)
    BY <1>2, ConcatEmptySeq
  <2> QED BY <2>1, <2>2
<1> QED BY <1>1, <1>2, <1>3 DEF AheadAccounted

LEMMA RequestAccounts ==
    ASSUME CoreInv, AccountHolds, CoreInv', pc \in {"plan", "chunk"}, NEW f, Request(f),
           Consecutive(f, Current)
    PROVE  AccountHolds'
<1>1. ~Exchanging /\ pc # "done" /\ error = "none" /\ ~Lost
  BY NotFailedYet DEF Exchanging
<1>2. CASE Fail("invalidInput")
  <2>1. /\ UNCHANGED <<call, requests, results, batch, progress>> /\ pc' = "done"
        /\ error' = "invalidInput" /\ ~Exchanging' /\ ~Lost'
    BY <1>2 DEF Fail, Exchanging, Lost
  <2> QED BY <1>1, <2>1, QuietAccounts
<1>3. CASE /\ batch' = f /\ pc' = "send"
           /\ requests' = Append(requests, [fragments |-> f, pduLength |-> pduLength])
           /\ UNCHANGED <<call, results, progress, error>>
  <2>1. Mutates' = Mutates /\ Items' = Items /\ Current' = Current /\ Exchanging' /\ ~Lost'
    BY <1>1, <1>3, SameCall DEF Current, Exchanging, Lost
  <2> SUFFICES ASSUME Mutates PROVE AccountHolds'
    BY <2>1 DEF AccountHolds
  <2>2. ResultsAccounted /\ AheadAccounted /\ PartsAccounted /\ RejectionTold
    BY DEF AccountHolds
  <2>3. /\ f \in Seq(Part) /\ requests \in Seq(RequestRecord) /\ pduLength \in 240 .. MaxSection
        /\ Fragments \in Seq(Part) /\ Current \in Nat /\ Current = Len(results) + 1
        /\ DOMAIN results = 1 .. Len(results) /\ Len(results) \in Nat
    <3>1. batch' \in Seq(Part)
      BY DEF CoreInv, TypesHold
    <3> QED BY <1>3, <3>1, CoreTyped DEF CoreInv, TypesHold, Current
  <2>4. Fragments' = Fragments \o f
    BY <1>3, <2>3, FragmentsGrow
  <2>5. ASSUME NEW i PROVE FragmentsOf(i)' = FragmentsOf(i) \o PartsOf(i, f)
    <3>1. PartsOf(i, Fragments \o f) = PartsOf(i, Fragments) \o PartsOf(i, f)
      BY <2>3, PartsConcat
    <3> QED BY <2>4, <3>1 DEF FragmentsOf
  <2>6. ResultsAccounted'
    <3>1. ASSUME NEW i \in 1 .. Len(results) PROVE FragmentsOf(i)' = FragmentsOf(i)
      <4>1. i \in Nat /\ ~(Current <= i /\ i < Current + Len(f))
        BY <2>3
      <4>2. PartsOf(i, f) = <<>>
        BY <2>3, <4>1, PartsOfConsecutive
      <4>3. FragmentsOf(i) \o <<>> = FragmentsOf(i)
        BY CoreTyped, ConcatEmptySeq
      <4> QED BY <2>5, <4>2, <4>3
    <3> QED BY <1>3, <2>2, <2>3, <3>1 DEF ResultsAccounted
  <2>7. AheadAccounted'
    <3>1. ASSUME NEW i \in Current .. Len(Items), NEW settled,
                 settled = AcknowledgedIn(i, progress.history)
          PROVE  /\ Tells(settled, Locations(settled), "success")
                 /\ Locations(settled) \o InFlight(i)' = FragmentsOf(i)'
      <4>1. Tells(settled, FragmentsOf(i), "success")
        BY <1>1, <2>2, <3>1, AheadTells
      <4>2. Locations(settled) = FragmentsOf(i) /\ Tells(settled, Locations(settled), "success")
        BY <4>1 DEF Tells
      <4>3. InFlight(i)' = PartsOf(i, f)
        BY <1>3, <2>1 DEF InFlight
      <4> QED BY <2>5, <4>2, <4>3
    <3> QED BY <1>3, <2>1, <3>1 DEF AheadAccounted
  <2>8. PartsAccounted'
    <3>1. Range(Fragments \o f) = Range(Fragments) \union Range(f)
      BY <2>3, PlacedConcat
    <3>2. Range(Fragments) = Placed(progress.history)
      BY <1>1, <2>2 DEF PartsAccounted
    <3> QED BY <1>3, <2>1, <2>4, <3>1, <3>2 DEF PartsAccounted
  <2>9. RejectionTold'
    BY <1>3, <2>2 DEF RejectionTold
  <2> QED BY <2>6, <2>7, <2>8, <2>9 DEF AccountHolds
<1> QED BY <1>2, <1>3 DEF Request

LEMMA ItemCompleteAccounts == ASSUME CoreInv, AccountHolds, ItemComplete PROVE AccountHolds'
<1>1. /\ pc = "chunk" /\ chunks = <<>> /\ results' = Complete("success") /\ pc' = "plan"
      /\ UNCHANGED <<call, requests, batch, progress, error>>
      /\ ~Exchanging /\ ~Exchanging' /\ pc # "done" /\ ~Lost /\ ~Lost'
  BY NotFailedYet DEF ItemComplete, Exchanging, Lost
<1>2. Mutates' = Mutates
  BY <1>1, SameCall
<1> SUFFICES ASSUME Mutates PROVE AccountHolds'
  BY <1>2 DEF AccountHolds
<1>3. ResultsAccounted /\ AheadAccounted /\ PartsAccounted /\ RejectionTold
  BY DEF AccountHolds
<1>4. /\ results \in Seq(Result) /\ Len(results) \in Nat /\ DOMAIN results = 1 .. Len(results)
      /\ \A i \in DOMAIN results : results[i].item = i
      /\ Len(Items) \in Nat
  BY CoreTyped DEF CoreInv, PhaseHolds
<1>5. Current \in 1 .. Len(Items) /\ Current = Len(results) + 1
  BY <1>1, DoneMeans DEF Current
<1> DEFINE s == results'
<1>6. /\ DOMAIN s = 1 .. Len(results) + 1 /\ Len(s) = Len(results) + 1
      /\ s[Len(results) + 1].status = "success" /\ \A i \in 1 .. Len(results) : s[i] = results[i]
  BY <1>1, <1>4, OneMoreResult DEF ItemResults
<1>7. Current' = Current + 1
  <2>1. Current' = Len(s) + 1
    BY DEF Current
  <2> HIDE DEF s
  <2> QED BY <1>4, <1>5, <1>6, <2>1
<1> HIDE DEF s
<1>8. Fragments' = Fragments /\ \A i : FragmentsOf(i)' = FragmentsOf(i)
  <2>1. Fragments' = Fragments
    BY <1>1, SameRequests DEF CoreInv
  <2> QED BY <2>1, SameParts
<1>9. \A i \in Current .. Len(Items) :
        Tells(AcknowledgedIn(i, progress.history), FragmentsOf(i), "success")
  BY <1>1, <1>3, AheadTells
<1>10. ResultsAccounted'
  <2>1. ASSUME NEW i \in DOMAIN s
        PROVE  Tells(AcknowledgedIn(i, progress.history), FragmentsOf(i), s[i].status)
    <3>1. CASE i \in 1 .. Len(results)
      BY <1>3, <1>4, <1>6, <3>1 DEF ResultsAccounted
    <3>2. CASE i = Current
      <4>1. i \in Current .. Len(Items)
        BY <1>5, <3>2
      <4> QED BY <1>5, <1>6, <1>9, <3>2, <4>1
    <3>3. i \in 1 .. Len(results) \/ i = Current
      BY <1>4, <1>5, <1>6
    <3> QED BY <3>1, <3>2, <3>3
  <2> QED BY <1>1, <1>8, <2>1 DEF ResultsAccounted, s
<1>11. AheadAccounted'
  <2> DEFINE first == Current + 1
  <2>1. \A i \in first .. Len(Items) : i \in Current .. Len(Items)
    BY <1>4, <1>5
  <2>2. \A i \in first .. Len(Items) :
          Tells(AcknowledgedIn(i, progress'.history), FragmentsOf(i), "success")
    BY <1>1, <1>9, <2>1
  <2>3. Current' = first
    BY <1>7
  <2> HIDE DEF first
  <2> QED BY <1>1, <2>2, <2>3, AheadFromTells
<1>12. PartsAccounted'
  BY <1>1, <1>3, <1>8 DEF PartsAccounted
<1>13. RejectionTold'
  BY <1>1, <1>3 DEF RejectionTold
<1> QED BY <1>10, <1>11, <1>12, <1>13 DEF AccountHolds

(* What the attempts tell of every item once the PLC has answered.         *)
LEMMA AnswerTells ==
    ASSUME CoreInv, AccountHolds, Mutates, pc = "await", NEW statuses \in Statuses,
           progress' = Acknowledge(progress, statuses)
    PROVE  /\ \A i \in 1 .. Len(results) :
                Tells(AcknowledgedIn(i, progress'.history), FragmentsOf(i), results[i].status)
           /\ \A i \in Current .. Current + Len(batch) - 1 :
                Tells(AcknowledgedIn(i, progress'.history), FragmentsOf(i),
                      statuses[i - Current + 1])
           /\ \A i \in Current + Len(batch) .. Len(Items) :
                Tells(AcknowledgedIn(i, progress'.history), FragmentsOf(i), "success")
           /\ Placed(progress'.history) = Range(Fragments)
           /\ \A x \in Range(progress'.history) : x.outcome # "globalRejected"
<1> DEFINE m == Len(batch)
           c == Current
           h == progress.history
           a == SettledWith(batch, statuses)
<1>1. /\ ResultsAccounted /\ AheadAccounted /\ PartsAccounted /\ RejectionTold
      /\ Exchanging /\ pc # "done" /\ error = "none"
  BY NotFailedYet DEF AccountHolds, Exchanging
<1>2. /\ batch \in Seq(Part) /\ m \in Nat /\ Consecutive(batch, c) /\ c + m - 1 <= Len(Items)
      /\ c \in Nat /\ c = Len(results) + 1 /\ Len(results) \in Nat /\ Len(Items) \in Nat
      /\ DOMAIN results = 1 .. Len(results) /\ DOMAIN batch = 1 .. m
  BY <1>1, BatchInFlight, CoreTyped DEF Current
<1>3. /\ h \in Seq(Attempt) /\ h \in Seq(AnyAttempt) /\ progress.pending = batch
      /\ \A i : /\ AcknowledgedIn(i, h) \in Seq(AnyAttempt)
                /\ Locations(AcknowledgedIn(i, h)) \in Seq(Part)
  BY HistoryTyped DEF CoreInv, PendingHolds
<1>4. progress'.history = h \o a
  BY <1>2, <1>3 DEF Acknowledge, Settled, SettledWith
<1>5. \A k \in 1 .. m : statuses[k] \in ItemResults
  BY <1>2, StatusesAre
<1> HIDE DEF h, a
<1>6. a \in Seq([location : Part, outcome : ItemResults]) /\ Len(a) = m /\ Placed(a) = Range(batch)
  <2>1. a = SettledWith(batch, statuses)
    BY DEF a
  <2> QED BY <1>2, <1>5, <2>1, SettledAdds
<1>7. DOMAIN a = 1 .. m /\ \A k \in 1 .. m : a[k].location = batch[k] /\ a[k].outcome = statuses[k]
  BY DEF a, SettledWith
<1>8. a \in Seq(AnyAttempt)
  <2> DEFINE R == [location : Part, outcome : ItemResults]
  <2>1. R \subseteq AnyAttempt
    BY DEF AnyAttempt, KnownOutcomes
  <2>2. a \in Seq(R)
    BY <1>6
  <2> HIDE DEF R
  <2> QED BY <2>1, <2>2
<1>9. ASSUME NEW i \in Nat
      PROVE  /\ AcknowledgedIn(i, h \o a) = AcknowledgedIn(i, h) \o AcknowledgedIn(i, a)
             /\ AcknowledgedIn(i, a) = IF c <= i /\ i < c + m THEN <<a[i - c + 1]>> ELSE <<>>
             /\ PartsOf(i, batch) = IF c <= i /\ i < c + m THEN <<batch[i - c + 1]>> ELSE <<>>
  <2>1. \A k \in 1 .. Len(a) : a[k].outcome \in ItemResults /\ a[k].location.item = c + k - 1
    BY <1>2, <1>5, <1>6, <1>7 DEF Consecutive
  <2>2. AcknowledgedIn(i, a) = IF c <= i /\ i < c + Len(a) THEN <<a[i - c + 1]>> ELSE <<>>
    BY <1>2, <1>8, <2>1, BatchAcknowledged
  <2>3. AcknowledgedIn(i, h \o a) = AcknowledgedIn(i, h) \o AcknowledgedIn(i, a)
    BY <1>3, <1>8, AcknowledgedConcat
  <2>4. PartsOf(i, batch) = IF c <= i /\ i < c + m THEN <<batch[i - c + 1]>> ELSE <<>>
    BY <1>2, PartsOfConsecutive
  <2> QED BY <1>6, <2>2, <2>3, <2>4
<1>10. ASSUME NEW i \in Nat, ~(c <= i /\ i < c + m)
       PROVE  AcknowledgedIn(i, h \o a) = AcknowledgedIn(i, h) /\ PartsOf(i, batch) = <<>>
  <2>1. AcknowledgedIn(i, h \o a) = AcknowledgedIn(i, h) \o <<>> /\ PartsOf(i, batch) = <<>>
    BY <1>9, <1>10
  <2>2. AcknowledgedIn(i, h) \o <<>> = AcknowledgedIn(i, h)
    BY <1>3, ConcatEmptySeq
  <2> QED BY <2>1, <2>2
<1>11. ASSUME NEW i \in 1 .. Len(results)
       PROVE  Tells(AcknowledgedIn(i, h \o a), FragmentsOf(i), results[i].status)
  <2>1. i \in Nat /\ ~(c <= i /\ i < c + m)
    BY <1>2
  <2>2. Tells(AcknowledgedIn(i, h), FragmentsOf(i), results[i].status)
    BY <1>1, <1>2 DEF ResultsAccounted, h
  <2> QED BY <1>10, <2>1, <2>2
<1>12. ASSUME NEW i \in c .. Len(Items)
       PROVE  /\ Tells(AcknowledgedIn(i, h), Locations(AcknowledgedIn(i, h)), "success")
              /\ Locations(AcknowledgedIn(i, h)) \o PartsOf(i, batch) = FragmentsOf(i)
  BY <1>1 DEF AheadAccounted, InFlight, h
<1>13. ASSUME NEW i \in c .. c + m - 1
       PROVE  Tells(AcknowledgedIn(i, h \o a), FragmentsOf(i), statuses[i - c + 1])
  <2> DEFINE k == i - c + 1
             told == AcknowledgedIn(i, h)
  <2>1. k \in 1 .. m /\ i \in Nat /\ c <= i /\ i < c + m /\ i \in c .. Len(Items)
    BY <1>2
  <2>2. AcknowledgedIn(i, h \o a) = told \o <<a[k]>> /\ PartsOf(i, batch) = <<batch[k]>>
    BY <1>9, <2>1
  <2>3. Tells(told, Locations(told), "success") /\ Locations(told) \o <<batch[k]>> = FragmentsOf(i)
    BY <1>12, <2>1, <2>2
  <2> HIDE DEF k
  <2>4. a[k] \in AnyAttempt /\ a[k].location = batch[k] /\ a[k].outcome = statuses[k]
    BY <1>6, <1>7, <1>8, <2>1
  <2>5. told \in Seq(AnyAttempt)
    BY <1>3
  <2> DEFINE x == a[k]
             both == told \o <<x>>
  <2> HIDE DEF told, x
  <2>6. Tells(both, Locations(told) \o <<x.location>>, x.outcome)
    BY <2>3, <2>4, <2>5, OneMoreTold DEF x
  <2> QED BY <2>2, <2>3, <2>4, <2>6 DEF x, k
<1>14. ASSUME NEW i \in c + m .. Len(Items)
       PROVE  Tells(AcknowledgedIn(i, h \o a), FragmentsOf(i), "success")
  <2> DEFINE told == AcknowledgedIn(i, h)
  <2>1. i \in Nat /\ ~(c <= i /\ i < c + m) /\ i \in c .. Len(Items)
    BY <1>2
  <2>2. AcknowledgedIn(i, h \o a) = told /\ PartsOf(i, batch) = <<>>
    BY <1>10, <2>1
  <2>3. Tells(told, Locations(told), "success") /\ Locations(told) \o <<>> = FragmentsOf(i)
    BY <1>12, <2>1, <2>2
  <2>4. Locations(told) \o <<>> = Locations(told)
    BY <1>3, ConcatEmptySeq
  <2> HIDE DEF told
  <2> QED BY <2>2, <2>3, <2>4
<1>15. /\ Placed(h \o a) = Placed(h) \union Placed(a)
       /\ Range(h \o a) = Range(h) \union Range(a)
  BY <1>3, <1>8, PlacedConcat
<1>16. Placed(h \o a) = Range(Fragments)
  BY <1>1, <1>6, <1>15 DEF PartsAccounted, h
<1>17. \A x \in Range(h \o a) : x.outcome # "globalRejected"
  <2>1. \A x \in Range(a) : x.outcome # "globalRejected"
    BY <1>5, <1>7 DEF Range, ItemResults
  <2>2. \A x \in Range(h) : x.outcome # "globalRejected"
    BY <1>1 DEF RejectionTold, h
  <2> QED BY <1>15, <2>1, <2>2
<1> QED BY <1>4, <1>11, <1>13, <1>14, <1>16, <1>17

LEMMA AnsweredAccounts == ASSUME CoreInv, AccountHolds, Answered PROVE AccountHolds'
<1>1. pc = "await" /\ Exchanging /\ pc # "done"
  BY DEF Answered, Exchanging
<1>2. PICK statuses \in Statuses :
        \/ Fail("plcRejected")
        \/ /\ chunks = <<>> /\ BatchAnswered(statuses)
           /\ UNCHANGED <<call, pduLength, batch, requests>>
        \/ /\ chunks # <<>> /\ ChunkAnswered(statuses)
           /\ UNCHANGED <<call, pduLength, batch, requests>>
  BY Zenon DEF Answered
<1>3. CASE Fail("plcRejected")
  BY <1>1, <1>3, RejectAccounts
<1>4. CASE ~Fail("plcRejected")
  <2> DEFINE s == results'
             m == Len(batch)
  <2>1. /\ UNCHANGED <<call, batch, requests, error>> /\ pc' \in {"plan", "chunk"}
        /\ progress' = IF Mutates THEN Acknowledge(progress, statuses) ELSE progress
    BY <1>2, <1>4 DEF BatchAnswered, ChunkAnswered
  <2>2. /\ Mutates' = Mutates /\ ~Exchanging' /\ error = "none" /\ ~Lost' /\ Fragments' = Fragments
    BY <1>1, <2>1, SameCall, SameRequests, NotFailedYet DEF CoreInv, Exchanging, Lost
  <2> SUFFICES ASSUME Mutates PROVE AccountHolds'
    BY <2>2 DEF AccountHolds
  <2>3. progress' = Acknowledge(progress, statuses)
    BY <2>1
  <2>4. /\ results \in Seq(Result) /\ Len(results) \in Nat /\ DOMAIN results = 1 .. Len(results)
        /\ \A i \in DOMAIN results : results[i].item = i
        /\ Len(Items) \in Nat /\ Current = Len(results) + 1 /\ m \in Nat
        /\ batch \in Seq(Part) /\ 1 \in 1 .. m /\ Current + m - 1 <= Len(Items)
    BY <1>1, CoreTyped, BatchInFlight DEF CoreInv, PhaseHolds, Current
  <2> DEFINE told(i) == AcknowledgedIn(i, progress'.history)
  <2>5. \A i \in 1 .. Len(results) : Tells(told(i), FragmentsOf(i), results[i].status)
    BY <1>1, <2>3, AnswerTells
  <2>6. \A i \in Current .. Current + m - 1 :
          Tells(told(i), FragmentsOf(i), statuses[i - Current + 1])
    BY <1>1, <2>3, AnswerTells
  <2>7. \A i \in Current + m .. Len(Items) : Tells(told(i), FragmentsOf(i), "success")
    BY <1>1, <2>3, AnswerTells
  <2>8. PartsAccounted'
    <3>1. Placed(progress'.history) = Range(Fragments)
      BY <1>1, <2>3, AnswerTells
    <3> QED BY <2>2, <3>1 DEF PartsAccounted
  <2>9. RejectionTold'
    <3>1. \A x \in Range(progress'.history) : x.outcome # "globalRejected"
      BY <1>1, <2>3, AnswerTells
    <3> QED BY <2>1, <2>2, <3>1 DEF RejectionTold
  <2>10. \A i : FragmentsOf(i)' = FragmentsOf(i)
    BY <2>2, SameParts
  <2>11. ResultsAccounted' /\ AheadAccounted'
    <3>1. CASE chunks = <<>> /\ BatchAnswered(statuses)
      <4>1. results' = results \o [i \in DOMAIN batch |->
                                    [item |-> batch[i].item, status |-> statuses[i]]]
        BY <3>1 DEF BatchAnswered
      <4>2. /\ Len(s) = Len(results) + m /\ DOMAIN s = 1 .. Len(results) + m
            /\ \A i \in 1 .. Len(results) : s[i] = results[i]
            /\ \A i \in 1 .. m : batch[i].item = Len(results) + i
                 /\ s[Len(results) + i] = [item |-> batch[i].item, status |-> statuses[i]]
        BY <1>1, <2>4, <3>1, <4>1, BatchResults DEF Batched
      <4>3. Current' = Current + m
        <5>1. Current' = Len(s) + 1
          BY DEF Current
        <5> HIDE DEF s
        <5> QED BY <2>4, <4>2, <5>1
      <4> HIDE DEF s
      <4>4. ASSUME NEW i \in DOMAIN s PROVE Tells(told(i), FragmentsOf(i), s[i].status)
        <5>1. CASE i \in 1 .. Len(results)
          BY <2>5, <4>2, <5>1
        <5>2. CASE i \in Current .. Current + m - 1
          <6> DEFINE n == Len(results)
                     k == i - Current + 1
          <6>1. k \in 1 .. m /\ n + k = i
            <7>1. n \in Nat /\ Current = n + 1 /\ m \in Nat
              BY <2>4
            <7> HIDE DEF n, m
            <7> QED BY <5>2, <7>1
          <6>2. Tells(told(i), FragmentsOf(i), statuses[k])
            BY <2>6, <5>2
          <6> HIDE DEF k
          <6>3. s[n + k] = [item |-> batch[k].item, status |-> statuses[k]]
            BY <4>2, <6>1
          <6>4. s[i].status = statuses[k]
            BY <6>1, <6>3
          <6> QED BY <6>2, <6>4
        <5>3. i \in 1 .. Len(results) \/ i \in Current .. Current + m - 1
          BY <2>4, <4>2
        <5> QED BY <5>1, <5>2, <5>3
      <4>5. ResultsAccounted'
        BY <2>10, <4>4 DEF ResultsAccounted, s
      <4>6. AheadAccounted'
        <5> DEFINE first == Current + m
        <5>1. \A i \in first .. Len(Items) : Tells(told(i), FragmentsOf(i), "success")
          BY <2>7
        <5>2. Current' = first
          BY <4>3
        <5> HIDE DEF first
        <5> QED BY <2>1, <2>2, <5>1, <5>2, AheadFromTells
      <4> QED BY <4>5, <4>6
    <3>2. CASE chunks # <<>> /\ ChunkAnswered(statuses)
      <4>1. m = 1 /\ Current \in 1 .. Len(Items)
        <5>1. batch = <<Fragment(Current, offset, Head(chunks))>> /\ Current \in 1 .. Len(Items)
          BY <1>1, <3>2, ChunkInFlight
        <5> QED BY <5>1
      <4>2. Tells(told(Current), FragmentsOf(Current), statuses[1])
        <5>1. Current \in Current .. Current + m - 1 /\ Current - Current + 1 = 1
          BY <2>4, <4>1
        <5> QED BY <2>6, <5>1
      <4>3. CASE statuses[1] = "success" /\ results' = results
        <5>1. Current' = Current
          BY <4>3 DEF Current
        <5>2. ResultsAccounted'
          BY <2>4, <2>5, <2>10, <4>3 DEF ResultsAccounted
        <5>3. AheadAccounted'
          <6> DEFINE first == Current
          <6>1. ASSUME NEW i \in first .. Len(Items) PROVE Tells(told(i), FragmentsOf(i), "success")
            <7>1. CASE i = Current
              BY <4>2, <4>3, <7>1
            <7>2. CASE i # Current
              <8>1. i \in Current + m .. Len(Items)
                BY <2>4, <4>1, <7>2
              <8> QED BY <2>7, <8>1
            <7> QED BY <7>1, <7>2
          <6>2. Current' = first
            BY <5>1
          <6> HIDE DEF first
          <6> QED BY <2>1, <2>2, <6>1, <6>2, AheadFromTells
        <5> QED BY <5>2, <5>3
      <4>4. CASE results' = Complete(statuses[1])
        <5>1. statuses[1] \in ItemResults
          BY <2>4, StatusesAre
        <5>2. /\ DOMAIN s = 1 .. Len(results) + 1 /\ Len(s) = Len(results) + 1
              /\ s[Len(results) + 1].status = statuses[1]
              /\ \A i \in 1 .. Len(results) : s[i] = results[i]
          BY <2>4, <4>4, <5>1, OneMoreResult
        <5>3. Current' = Current + 1
          <6>1. Current' = Len(s) + 1
            BY DEF Current
          <6> HIDE DEF s
          <6> QED BY <2>4, <5>2, <6>1
        <5> HIDE DEF s
        <5>4. ASSUME NEW i \in DOMAIN s PROVE Tells(told(i), FragmentsOf(i), s[i].status)
          <6>1. CASE i \in 1 .. Len(results)
            BY <2>5, <5>2, <6>1
          <6>2. CASE i = Current
            BY <2>4, <4>2, <5>2, <6>2
          <6>3. i \in 1 .. Len(results) \/ i = Current
            BY <2>4, <5>2
          <6> QED BY <6>1, <6>2, <6>3
        <5>5. ResultsAccounted'
          BY <2>10, <5>4 DEF ResultsAccounted, s
        <5>6. AheadAccounted'
          <6> DEFINE first == Current + 1
          <6>1. \A i \in first .. Len(Items) : Tells(told(i), FragmentsOf(i), "success")
            BY <2>7, <4>1
          <6>2. Current' = first
            BY <5>3
          <6> HIDE DEF first
          <6> QED BY <2>1, <2>2, <6>1, <6>2, AheadFromTells
        <5> QED BY <5>5, <5>6
      <4> QED BY <3>2, <4>3, <4>4 DEF ChunkAnswered, ContinuesAfter
    <3> QED BY <1>2, <1>4, <3>1, <3>2
  <2> QED BY <2>8, <2>9, <2>11 DEF AccountHolds
<1> QED BY <1>3, <1>4

LEMMA AccountStarts == ASSUME Init PROVE AccountHolds
<1>1. /\ CoreInv /\ pc = "validate" /\ results = <<>> /\ error = "none"
      /\ progress.history = <<>> /\ ~Exchanging /\ ~Lost
  BY CoreStarts DEF Init, NoProgress, Exchanging, Lost
<1>2. Fragments = <<>> /\ \A i : FragmentsOf(i) = <<>>
  BY NothingYet
<1>3. \A i : AcknowledgedIn(i, progress.history) = <<>>
  <2>1. progress.history \in Seq(AnyAttempt) /\ Len(progress.history) = 0
    BY <1>1, HistoryTyped
  <2> QED BY <2>1, NothingAcknowledged
<1>4. Locations(<<>>) = <<>>
  BY DEF Locations
<1>5. ResultsAccounted
  BY <1>1 DEF ResultsAccounted
<1>6. AheadAccounted
  <2>1. <<>> \o <<>> = <<>>
    OBVIOUS
  <2>2. \A i : InFlight(i) = <<>>
    BY <1>1 DEF InFlight
  <2>3. Tells(<<>>, <<>>, "success")
    BY <1>4 DEF Tells
  <2> QED BY <1>2, <1>3, <1>4, <2>1, <2>2, <2>3 DEF AheadAccounted
<1>7. PartsAccounted /\ RejectionTold
  <2>1. Range(<<>>) = {} /\ Range(progress.history) = {}
    BY <1>1 DEF Range
  <2> QED BY <1>1, <1>2, <2>1 DEF PartsAccounted, RejectionTold, Placed
<1> QED BY <1>5, <1>6, <1>7 DEF AccountHolds

LEMMA AccountStutters == ASSUME CoreInv, AccountHolds, UNCHANGED vars PROVE AccountHolds'
<1>1. /\ UNCHANGED <<call, requests, results, batch, progress, pc, error>>
      /\ Exchanging' = Exchanging /\ Lost' = Lost
  BY DEF vars, Exchanging, Lost
<1>2. CASE pc # "done"
  <2>1. error = "none" /\ ~Lost
    BY <1>2, NotFailedYet
  <2> QED BY <1>1, <1>2, <2>1, QuietAccounts
<1>3. CASE pc = "done"
  <2>1. Mutates' = Mutates /\ Fragments' = Fragments
    BY <1>1, SameCall, SameRequests DEF CoreInv
  <2> SUFFICES ASSUME Mutates PROVE AccountHolds'
    BY <2>1 DEF AccountHolds
  <2>2. ResultsAccounted /\ PartsAccounted /\ RejectionTold
    BY DEF AccountHolds
  <2>3. ResultsAccounted'
    BY <1>1, <2>2, ResultsTellTheSame
  <2>4. AheadAccounted' /\ PartsAccounted' /\ RejectionTold'
    BY <1>1, <1>3, <2>1, <2>2 DEF AheadAccounted, PartsAccounted, RejectionTold
  <2> QED BY <2>3, <2>4 DEF AccountHolds
<1> QED BY <1>2, <1>3

LEMMA SendBatchAccounts == ASSUME CoreInv, AccountHolds, SendBatch PROVE AccountHolds'
<1>1. /\ TypesHold /\ AllValid /\ pc = "plan" /\ Current <= Len(Items) /\ Taken > 0 /\ CoreInv'
      /\ Len(results) \in Nat
  BY SendBatchKeeps DEF CoreInv, PhaseHolds, SendBatch, TypesHold
<1>2. Len(Batch(Taken)) = Taken
  BY <1>1, BatchFits DEF AllValid
<1>3. Consecutive(Batch(Taken), Current)
  BY <1>2 DEF Consecutive, Batch, Fragment
<1>4. Request(Batch(Taken))
  BY DEF SendBatch, Batch
<1> QED BY <1>1, <1>3, <1>4, RequestAccounts

LEMMA SendChunkAccounts == ASSUME CoreInv, AccountHolds, SendChunk PROVE AccountHolds'
<1> DEFINE g == Fragment(Current, offset, Head(chunks))
<1>1. pc = "chunk" /\ CoreInv' /\ Request(<<g>>) /\ Len(results) \in Nat
  BY SendChunkKeeps DEF SendChunk, CoreInv, TypesHold
<1>2. g.item = Current /\ Current \in Nat
  BY <1>1 DEF Fragment, Current
<1> HIDE DEF g
<1>3. Consecutive(<<g>>, Current)
  BY <1>2 DEF Consecutive
<1> QED BY <1>1, <1>3, RequestAccounts

LEMMA SendAccounts == ASSUME CoreInv, AccountHolds, Send PROVE AccountHolds'
<1>1. /\ pc # "done" /\ Exchanging /\ Exchanging' /\ UNCHANGED <<call, requests, results, batch, error>>
      /\ progress' = IF Mutates THEN Sent(progress, batch) ELSE progress
  BY DEF Send, Exchanging
<1>2. progress'.history = progress.history
  <2>1. progress \in [history : Seq(Attempt), pending : Seq(Part)]
    BY DEF CoreInv, TypesHold
  <2> QED BY <1>1, <2>1 DEF Sent
<1>3. error' # "plcRejected"
  BY <1>1, NotFailedYet
<1> QED BY <1>1, <1>2, <1>3, QuietAccounts

(* Planning and validation send nothing and settle nothing.                *)
LEMMA PlanningAccounts ==
    ASSUME CoreInv, AccountHolds, Validate \/ CutItem \/ AllComplete
    PROVE  AccountHolds'
<1>1. error = "none" /\ ~Lost /\ ~Exchanging /\ pc # "done"
  BY NotFailedYet DEF Validate, CutItem, AllComplete, Exchanging
<1>2. UNCHANGED <<call, requests, results, batch, progress>> /\ error' \in {"none", "invalidInput"}
  BY <1>1 DEF Validate, CutItem, AllComplete, Fail
<1>3. ~Exchanging' /\ ~Lost'
  BY <1>1, <1>2 DEF Validate, CutItem, AllComplete, Fail, Exchanging, Lost
<1> QED BY <1>1, <1>2, <1>3, QuietAccounts

LEMMA ExchangeFailsAccounts == ASSUME CoreInv, AccountHolds, ExchangeFails PROVE AccountHolds'
<1>1. CASE pc = "await" /\ Fail("plcRejected")
  BY <1>1, RejectAccounts
<1>2. ASSUME NEW kind \in {"protocol", "disconnected", "timeout"},
             pc \in {"send", "await"}, Fail(kind)
      PROVE  AccountHolds'
  <2>1. /\ UNCHANGED <<call, requests, results, batch, progress>> /\ pc' = "done" /\ error' = kind
        /\ Exchanging /\ ~Exchanging' /\ Lost' /\ pc # "done" /\ error' # "plcRejected"
    BY <1>2 DEF Fail, Exchanging, Lost
  <2> QED BY <2>1, QuietAccounts
<1> QED BY <1>1, <1>2 DEF ExchangeFails

LEMMA AccountKept == ASSUME CoreInv, AccountHolds, [Next]_vars PROVE AccountHolds'
<1>1. CASE UNCHANGED vars
  BY <1>1, AccountStutters
<1>2. CASE Validate \/ CutItem \/ AllComplete
  BY <1>2, PlanningAccounts
<1>3. CASE SendBatch
  BY <1>3, SendBatchAccounts
<1>4. CASE SendChunk
  BY <1>4, SendChunkAccounts
<1>5. CASE ItemComplete
  BY <1>5, ItemCompleteAccounts
<1>6. CASE Send
  BY <1>6, SendAccounts
<1>7. CASE Retry
  BY <1>7, RetryAccounts
<1>8. CASE Answered
  BY <1>8, AnsweredAccounts
<1>9. CASE ExchangeFails
  BY <1>9, ExchangeFailsAccounts
<1> QED BY <1>1, <1>2, <1>3, <1>4, <1>5, <1>6, <1>7, <1>8, <1>9, Zenon DEF Next

LEMMA Accounting == Spec => [](CoreInv /\ AccountHolds)
<1>1. Init => CoreInv /\ AccountHolds
  BY CoreStarts, AccountStarts
<1>2. CoreInv /\ AccountHolds /\ [Next]_vars => (CoreInv /\ AccountHolds)'
  BY CoreKept, AccountKept
<1> QED BY <1>1, <1>2, PTL DEF Spec

-----------------------------------------------------------------------------
(* What the snapshot of a finished write says                              *)

(* The trace is the history, then the pending attempt if there is one.     *)
LEMMA TraceAdds ==
    ASSUME CoreInv
    PROVE  \E a \in Seq(AnyAttempt) :
             /\ Trace(progress) = progress.history \o a
             /\ \A k \in 1 .. Len(a) : a[k].outcome = "pending"
             /\ Placed(a) = Range(progress.pending) /\ Len(a) = Len(progress.pending)
<1> DEFINE p == progress.pending
           h == progress.history
           S == {"pending"}
           outcomes == [k \in DOMAIN p |-> "pending"]
           a == SettledWith(p, outcomes)
           R == [location : Part, outcome : S]
<1>1. p \in Seq(Part) /\ DOMAIN p = 1 .. Len(p)
  BY HistoryTyped
<1>2. Trace(progress) = h \o a
  BY <1>1 DEF Trace, Finish, Settled, SettledWith
<1>3. \A k \in 1 .. Len(p) : outcomes[k] \in S /\ outcomes[k] = "pending"
  BY <1>1
<1>4. R \subseteq AnyAttempt
  BY DEF AnyAttempt
<1>5. a = SettledWith(p, outcomes)
  OBVIOUS
<1> HIDE DEF p, h, S, outcomes, a
<1>6. a \in Seq(R) /\ Len(a) = Len(p)
  BY <1>1, <1>3, <1>5, SettledAdds
<1>7. \A k \in 1 .. Len(p) : a[k].outcome = outcomes[k]
  BY <1>1, <1>5 DEF SettledWith
<1>8. Placed(a) = Range(p)
  BY <1>1, <1>3, <1>5, SettledAdds
<1> HIDE DEF R
<1>9. a \in Seq(AnyAttempt)
  BY <1>4, <1>6
<1>10. \A k \in 1 .. Len(a) : a[k].outcome = "pending"
  BY <1>3, <1>6, <1>7
<1>11. Trace(progress) = progress.history \o a
  BY <1>2 DEF h
<1>12. Placed(a) = Range(progress.pending) /\ Len(a) = Len(progress.pending)
  BY <1>6, <1>8 DEF p
<1> QED BY <1>9, <1>10, <1>11, <1>12

LEMMA SelectedSome ==
    ASSUME NEW s \in Seq(AnyAttempt), NEW outcomes
    PROVE  Selected(s, outcomes) # <<>> <=> \E x \in Range(s) : x.outcome \in outcomes
<1>1. DOMAIN s = 1 .. Len(s) /\ \A k \in 1 .. Len(s) : s[k] \in AnyAttempt
  OBVIOUS
<1>2. CASE \A k \in 1 .. Len(s) : s[k].outcome \notin outcomes
  <2>1. Selected(s, outcomes) = <<>>
    BY <1>2, SelectedNone
  <2> QED BY <1>1, <1>2, <2>1 DEF Range
<1>3. ASSUME NEW k \in 1 .. Len(s), s[k].outcome \in outcomes
      PROVE  /\ Selected(s, outcomes) # <<>>
             /\ \E x \in Range(s) : x.outcome \in outcomes
  <2>1. s[k] \in Ending(outcomes)
    BY <1>1, <1>3 DEF Ending
  <2>2. Chosen(s, Ending(outcomes)) # <<>>
    BY <2>1, ChosenSome
  <2>3. Selected(s, outcomes) # <<>>
    BY <2>2, AttemptsChosen
  <2>4. s[k] \in Range(s)
    BY <1>1 DEF Range
  <2> QED BY <1>3, <2>3, <2>4
<1> QED BY <1>2, <1>3

(* When a write has ended, its snapshot explains its results: of each item *)
(* with a result exactly the parts that were requested are acknowledged,   *)
(* the last with the status of the item; only the request in flight when   *)
(* the reply was lost is uncertain; a refusal of the whole request is told *)
(* exactly when the call says plcRejected; nothing requested is left out.  *)
THEOREM ProgressAlwaysExplainsResults == Spec => []ProgressExplainsResults
<1>1. ASSUME CoreInv, AccountHolds PROVE ProgressExplainsResults
  <2> SUFFICES ASSUME Mutates, pc = "done" PROVE ProgressExplainsResults
    BY DEF ProgressExplainsResults
  <2> DEFINE h == progress.history
             p == progress.pending
             trace == Trace(progress)
             snapshot == Snapshot(progress)
             Parts(attempts) == {x.location : x \in Range(attempts)}
             lost == error \in {"protocol", "disconnected", "timeout"}
  <2>1. ResultsAccounted /\ PartsAccounted /\ RejectionTold
    BY <1>1 DEF AccountHolds
  <2>2. h \in Seq(Attempt) /\ h \in Seq(AnyAttempt) /\ p \in Seq(Part) /\ ~Exchanging
    BY <1>1, HistoryTyped DEF Exchanging
  <2>3. p \in {<<>>, batch} /\ (p # <<>> => Lost)
    BY <1>1 DEF CoreInv, PendingHolds
  <2>4. PICK a \in Seq(AnyAttempt) :
           /\ trace = h \o a
           /\ \A k \in 1 .. Len(a) : a[k].outcome = "pending"
           /\ Placed(a) = Range(p) /\ Len(a) = Len(p)
    BY <1>1, TraceAdds
  <2>5. /\ snapshot.attempts = trace
        /\ snapshot.acknowledged = Selected(trace, ItemResults)
        /\ snapshot.rejected = Selected(trace, {"globalRejected"})
        /\ snapshot.uncertain = Selected(trace, {"pending"})
    BY DEF Snapshot
  <2> HIDE DEF h, p, trace, snapshot
  <2>6. \A i : AttemptsOf(i, snapshot.acknowledged) = AcknowledgedIn(i, h)
    <3>1. \A k \in 1 .. Len(a) : a[k].outcome \notin ItemResults
      BY <2>4 DEF ItemResults
    <3>2. \A i : AcknowledgedIn(i, h \o a) = AcknowledgedIn(i, h)
      BY <2>2, <3>1, TellsTheSame
    <3> QED BY <2>4, <2>5, <3>2 DEF AcknowledgedIn
  <2>7. ASSUME NEW i \in DOMAIN results, NEW settled,
               settled = AttemptsOf(i, snapshot.acknowledged)
        PROVE  /\ [k \in DOMAIN settled |-> settled[k].location] = FragmentsOf(i)
               /\ [k \in DOMAIN settled |-> settled[k].outcome] =
                     [k \in DOMAIN settled |->
                        IF k = Len(settled) THEN results[i].status ELSE "success"]
    <3>1. Tells(settled, FragmentsOf(i), results[i].status)
      BY <2>1, <2>6, <2>7 DEF ResultsAccounted, h
    <3> QED BY <3>1 DEF Tells, Locations
  <2>8. snapshot.uncertain # <<>> => lost /\ Parts(snapshot.uncertain) = Range(batch)
    <3>1. Selected(h \o a, {"pending"}) = Selected(h, {"pending"}) \o Selected(a, {"pending"})
      BY <2>2, SelectedConcat
    <3>2. Selected(h, {"pending"}) = <<>>
      <4>1. \A k \in 1 .. Len(h) : h[k].outcome \notin {"pending"}
        <5>1. \A k \in 1 .. Len(h) : h[k] \in Attempt
          BY <2>2
        <5> QED BY <5>1 DEF Attempt, KnownOutcomes, ItemResults
      <4> QED BY <2>2, <4>1, SelectedNone
    <3>3. Selected(a, {"pending"}) = a
      <4>1. \A k \in 1 .. Len(a) : a[k].outcome \in {"pending"}
        BY <2>4
      <4> QED BY <4>1, SelectedAll
    <3>4. snapshot.uncertain = a
      BY <2>4, <2>5, <3>1, <3>2, <3>3
    <3>5. a # <<>> => p # <<>>
      BY <2>2, <2>4
    <3>6. Parts(a) = Range(p)
      BY <2>4 DEF Placed
    <3> QED BY <2>3, <3>4, <3>5, <3>6 DEF Lost
  <2>9. snapshot.rejected # <<>> <=> error = "plcRejected"
    <3> DEFINE S == {"globalRejected"}
    <3>1. Selected(h \o a, S) = Selected(h, S) \o Selected(a, S)
      BY <2>2, SelectedConcat
    <3>2. Selected(a, S) = <<>>
      <4>1. \A k \in 1 .. Len(a) : a[k].outcome \notin S
        BY <2>4
      <4> QED BY <4>1, SelectedNone
    <3>3. Selected(h, S) \in Seq(AnyAttempt)
      BY <2>2, AttemptsChosen
    <3> DEFINE some == Selected(h, S)
    <3> HIDE DEF some
    <3>4. some \o <<>> = some
      BY <3>3, ConcatEmptySeq DEF some
    <3>5. snapshot.rejected = some
      BY <2>4, <2>5, <3>1, <3>2, <3>4 DEF some
    <3>6. some # <<>> <=> \E x \in Range(h) : x.outcome \in S
      BY <2>2, SelectedSome DEF some
    <3> QED BY <2>1, <3>5, <3>6 DEF RejectionTold, h
  <2>10. Range(Fragments) = Parts(snapshot.attempts) \union IF lost THEN Range(batch) ELSE {}
    <3>1. Placed(h \o a) = Placed(h) \union Placed(a)
      BY <2>2, PlacedConcat
    <3>2. Parts(snapshot.attempts) = Placed(h) \union Range(p)
      BY <2>4, <2>5, <3>1 DEF Placed
    <3>3. Range(Fragments) = Placed(h) \union IF Lost THEN Range(batch) ELSE {}
      BY <2>1, <2>2 DEF PartsAccounted, h
    <3>4. Range(p) = {} \/ (Lost /\ Range(p) = Range(batch))
      BY <2>3 DEF Range
    <3> QED BY <3>2, <3>3, <3>4 DEF Lost
  <2> QED BY <2>7, <2>8, <2>9, <2>10 DEF ProgressExplainsResults, snapshot
<1> QED BY <1>1, Accounting, PTL
=============================================================================
