--------------------------- MODULE MCReceivePath ---------------------------
(***************************************************************************)
(* Instances of ReceivePath.  Reference 1 is awaited, 2 is a stale one.    *)
(***************************************************************************)
EXTENDS ReceivePath

DataFrames(payloads) == [fault : {"none"}, final : BOOLEAN, payload : payloads]

(* Empty, one byte, full and joined TSDUs, and the two ways to be broken.  *)
AllFrames ==
    DataFrames({<<>>, <<1>>, <<2>>, <<2, 1>>}) \union
    [fault : {"header", "tpdu"}, final : {TRUE}, payload : {<<1>>}]

(* Empty and one-byte frames, to spend the segments and the stale replies. *)
TinyFrames == DataFrames({<<>>, <<1>>, <<2>>})

MCStreams == BoundedSeq(AllFrames, 3) \union [1 .. 5 -> TinyFrames]
=============================================================================
