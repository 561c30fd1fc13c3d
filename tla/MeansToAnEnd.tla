--------------------------- MODULE MeansToAnEnd ----------------------------
(***************************************************************************)
(* One session of src/wasi/problems/p02-means-to-an-end/src/lib.rs: run    *)
(* reads 9-byte messages, keeps the session's prices in a BTreeMap keyed   *)
(* by timestamp, and answers each Query with the mean price over the       *)
(* inclusive time range, as an i32.                                        *)
(*                                                                         *)
(* A message is the 9-byte chunk the client sends, each field an i32 in   *)
(* big-endian two's complement; parse decodes it with i32::from_be_bytes   *)
(* and a first byte other than 'I' or 'Q' is Error::MessageInvalid.  The  *)
(* reply is the 4 bytes I32Encoder writes.  The mean is computed as the    *)
(* code does (an i64 sum over the range in key order, divided with Rust's  *)
(* truncating division) and checked against a reference mean, with the     *)
(* chunks and the reply read by a reference decoding.                      *)
(***************************************************************************)
EXTENDS Integers, Sequences, SequencesExt, FiniteSetsExt, TLC

CONSTANTS
  Timestamps,   \* timestamps of Insert messages (i32)
  Prices,       \* prices of Insert messages (i32)
  QueryTimes,   \* mintime and maxtime of Query messages (i32)
  NoAnswer      \* model value: no Query answered yet

VARIABLES
  items,        \* the BTreeMap timestamp -> price, as a function
  status,       \* "open", or how run returned: "ok" or "err"
  last          \* history: [items, chunk, reply] of the last answer: the
                \* Query chunk and the reply bytes; or NoAnswer

vars == <<items, status, last>>

(* The client's encoding of an i32 (the protocol's, not the code's): its   *)
(* high and low 16-bit halves, high half first, each as two bytes.        *)
Wire(v) ==
  LET Bytes16(h) == <<h \div 256, h % 256>>
  IN Bytes16((v \div 65536) % 65536) \o Bytes16(v % 65536)

(* The chunks a client may send: Inserts and Queries over the constants,   *)
(* and one whose first byte is neither 'I' (73) nor 'Q' (81).             *)
Chunks ==
  {<<73>> \o Wire(t) \o Wire(p) : t \in Timestamps, p \in Prices}
  \cup {<<81>> \o Wire(lo) \o Wire(hi) : lo, hi \in QueryTimes}
  \cup {<<88>> \o Wire(0) \o Wire(0)}

(* The values of i32. *)
I32 == -2147483647 - 1 .. 2147483647

(* Mutant of FromBeBytes: i32::from_le_bytes. *)
FromLeBytes(b) ==
  IF b[4] < 128
  THEN ((b[4] * 256 + b[3]) * 256 + b[2]) * 256 + b[1]
  ELSE -((((255 - b[4]) * 256 + (255 - b[3])) * 256 + (255 - b[2])) * 256
         + (255 - b[1])) - 1

(* i32::from_be_bytes of four bytes: two's complement, most significant   *)
(* byte first; a leading byte of 128 or more makes the value negative.     *)
FromBeBytes(b) ==
  IF b[1] < 128
  THEN ((b[1] * 256 + b[2]) * 256 + b[3]) * 256 + b[4]
  ELSE -((((255 - b[1]) * 256 + (255 - b[2])) * 256 + (255 - b[3])) * 256
         + (255 - b[4])) - 1

(* parse: the tag byte, then the fields chunk[1..=4] and chunk[5..]. *)
Parse(c) ==
  [kind |-> CASE c[1] = 73 -> "Insert" [] c[1] = 81 -> "Query"
                 [] OTHER -> "Invalid",
   x |-> FromBeBytes(SubSeq(c, 2, 5)),
   y |-> FromBeBytes(SubSeq(c, 6, 9))]

(* Mutant of I32Encode: to_le_bytes in place of to_be_bytes. *)
I32EncodeLe(v) ==
  LET w == IF v >= 0 THEN v ELSE -v - 1
      B(k) == IF v >= 0 THEN (w \div k) % 256 ELSE 255 - ((w \div k) % 256)
  IN <<B(1), B(256), B(65536), B(16777216)>>

(* I32Encoder::encode: item.to_be_bytes(), two's complement. *)
I32Encode(v) ==
  LET w == IF v >= 0 THEN v ELSE -v - 1
      B(k) == IF v >= 0 THEN (w \div k) % 256 ELSE 255 - ((w \div k) % 256)
  IN <<B(16777216), B(65536), B(256), B(1)>>

(* Rust's i64 `/`: rounds toward zero (b > 0). *)
TruncDiv(a, b) == IF a >= 0 THEN a \div b ELSE -((-a) \div b)

(* Mutant of InRange: items.range(mintime..maxtime), end excluded. *)
InRangeExclusive(lo, hi, t) == lo <= t /\ t < hi

(* items.range(mintime..=maxtime) *)
InRange(lo, hi, t) == lo <= t /\ t <= hi

(* The loop over the range in key order: count += 1; sum += i64::from(v); *)
(* then sum / count, or 0 for an empty range.                              *)
Mean(f, lo, hi) ==
  LET keys == SetToSortSeq({t \in DOMAIN f : InRange(lo, hi, t)}, <)
      acc  == FoldLeft(LAMBDA a, t : [count |-> a.count + 1, sum |-> a.sum + f[t]],
                       [count |-> 0, sum |-> 0], keys)
  IN IF acc.count > 0 THEN TruncDiv(acc.sum, acc.count) ELSE 0

(* The match guard `maxtime >= mintime`. *)
ValidRange(lo, hi) == hi >= lo

(* The reply the session writes for Query { mintime, maxtime }. *)
Reply(lo, hi) == IF ValidRange(lo, hi) THEN Mean(items, lo, hi) ELSE 0

-----------------------------------------------------------------------------
Init ==
  /\ items = <<>>
  /\ status = "open"
  /\ last = NoAnswer

(* Mutant of Insert: timestamp and price swapped when decoding. *)
InsertSwapped(c) ==
  /\ status = "open"
  /\ Parse(c).kind = "Insert"
  /\ items' = (Parse(c).y :> Parse(c).x) @@ items
  /\ UNCHANGED <<status, last>>

(* Message::Insert { timestamp, price }: items.insert(timestamp, price),  *)
(* replacing an earlier price.                                             *)
Insert(c) ==
  /\ status = "open"
  /\ Parse(c).kind = "Insert"
  /\ items' = (Parse(c).x :> Parse(c).y) @@ items
  /\ UNCHANGED <<status, last>>

(* Message::Query { mintime, maxtime }: with maxtime >= mintime the mean  *)
(* goes through i32::try_from(mean)?, whose error ends run; otherwise 0    *)
(* is sent.  The reply is encoded and written with write.send.             *)
Query(c) ==
  /\ status = "open"
  /\ Parse(c).kind = "Query"
  /\ LET r == Reply(Parse(c).x, Parse(c).y)
     IN IF r \in I32
        THEN /\ last' = [items |-> items, chunk |-> c, reply |-> I32Encode(r)]
             /\ UNCHANGED status
        ELSE /\ status' = "err"
             /\ UNCHANGED last
  /\ UNCHANGED items

(* A chunk whose first byte is neither 'I' nor 'Q': parse returns          *)
(* MessageInvalid, `value?` leaves the loop and run returns the error.     *)
Invalid(c) ==
  /\ status = "open"
  /\ Parse(c).kind = "Invalid"
  /\ status' = "err"
  /\ UNCHANGED <<items, last>>

(* The stream ends (next() is None) or reports StreamError::Closed: run    *)
(* closes the stream and returns Ok.                                       *)
Closed ==
  /\ status = "open"
  /\ status' = "ok"
  /\ UNCHANGED <<items, last>>

(* Any other stream error, in a read or in write.send: run returns it. *)
StreamFailure ==
  /\ status = "open"
  /\ status' = "err"
  /\ UNCHANGED <<items, last>>

Next ==
  \/ \E c \in Chunks : Insert(c) \/ Query(c) \/ Invalid(c)
  \/ Closed
  \/ StreamFailure

Spec == Init /\ [][Next]_vars

-----------------------------------------------------------------------------
TypeOK ==
  /\ DOMAIN items \subseteq Timestamps
  /\ \A t \in DOMAIN items : items[t] \in Prices
  /\ status \in {"open", "ok", "err"}
  /\ last = NoAnswer \/ (last.chunk \in Chunks /\ Len(last.reply) = 4)

(* The exact mean of the prices stored for [lo, hi], rounded either way,  *)
(* or 0 when the range is empty or mintime comes after maxtime: the answer *)
(* the protocol requires.  Stated with a set sum, not the code's loop.     *)
Acceptable(f, lo, hi, r) ==
  LET S == {t \in DOMAIN f : lo <= t /\ t <= hi}
      n == Cardinality(S)
      s == MapThenSumSet(LAMBDA t : f[t], S)
  IN IF lo > hi \/ n = 0 THEN r = 0
                         ELSE r * n > s - n /\ r * n < s + n

(* The value of four bytes as the protocol reads them: a signed high half  *)
(* and an unsigned low half.                                               *)
WireValue(b) ==
  LET hi == b[1] * 256 + b[2]
      lo == b[3] * 256 + b[4]
  IN (IF hi >= 32768 THEN hi - 65536 ELSE hi) * 65536 + lo

(* Every Query reply the session writes is the mean of exactly the prices *)
(* whose timestamps lie in the inclusive range, rounded toward zero or     *)
(* away from it, including negative means, single-instant ranges and       *)
(* timestamps whose price was replaced; the range is the one the client    *)
(* encoded and the mean is the one the client decodes from the reply.      *)
MeanCorrect ==
  last # NoAnswer =>
    Acceptable(last.items, WireValue(SubSeq(last.chunk, 2, 5)),
               WireValue(SubSeq(last.chunk, 6, 9)), WireValue(last.reply))
=============================================================================
