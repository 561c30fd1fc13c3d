------------------------------ MODULE WriteAll ------------------------------
(***************************************************************************)
(* AsyncWriteExt::write_all of src/wasi/crates/wasi-async/src/io.rs       *)
(* (18-33): the loop that hands the rest of a buffer to AsyncWrite::write  *)
(* until all of it is accepted.  Two writers: a stream of the             *)
(* environment, whose write may accept any prefix of what it is given,    *)
(* none of it, or fail with a StreamError; and the crate's own            *)
(* `impl AsyncWrite for &mut Vec<u8>` (48-61), which appends all of it.    *)
(* What the Vec received is then read back through the crate's            *)
(* `impl AsyncRead for &[u8]` (38-46) in reads of any requested length,   *)
(* as the codec tests do.  Bytes are model values; only order matters.    *)
(***************************************************************************)
EXTENDS Naturals, Sequences, SequencesExt, FiniteSetsExt

CONSTANTS
  Bytes,      \* byte values (model values)
  MaxLen      \* bound: length of the buffer given to write_all

VARIABLES
  data,       \* the slice still to be written (the loop's `data`)
  sink,       \* what the writer has accepted so far
  status,     \* "writing", "ok", "err" (StreamError) or "panic" (assert!)
  given,      \* history: the buffer write_all was called with
  writer,     \* "stream" (a socket of the environment) or "vec"
  pos,        \* the &[u8] reader over the Vec: its slice is sink[pos+1..]
  got         \* the bytes its reads have returned, in order

vars == <<data, sink, status, given, writer, pos, got>>

Init ==
  /\ given \in UNION {[1..n -> Bytes] : n \in 0..MaxLen}
  /\ writer \in {"stream", "vec"}
  /\ pos = 0
  /\ got = <<>>
  /\ data = given
  /\ sink = <<>>
  /\ status = "writing"

(* Mutant of Advance: the slice advanced one byte too far. *)
AdvancePastOne(d, len) == SubSeq(d, len + 2, Len(d))

(* data = &data[len as usize..] *)
Advance(d, len) == SubSeq(d, len + 1, Len(d))

(* `while !data.is_empty()` finishes: Ok(()). *)
readerVars == <<writer, pos, got>>

Done ==
  /\ status = "writing"
  /\ data = <<>>
  /\ status' = "ok"
  /\ UNCHANGED <<data, sink, given, readerVars>>

(* One turn of the loop: self.write(data) accepts len bytes;               *)
(* assert!(len > 0) panics on zero; a complete write breaks out (Ok),      *)
(* otherwise the rest is kept.                                             *)
WriteSome(len) ==
  /\ status = "writing"
  /\ data # <<>>
  /\ len <= Len(data)
  /\ IF len = 0
     THEN /\ status' = "panic"
          /\ UNCHANGED <<data, sink>>
     ELSE /\ sink' = sink \o SubSeq(data, 1, len)
          /\ IF len = Len(data)
             THEN /\ status' = "ok"
                  /\ UNCHANGED data
             ELSE /\ data' = Advance(data, len)
                  /\ UNCHANGED status
  /\ UNCHANGED <<given, readerVars>>

(* Vec's write: extend_from_slice(data); Ok(data.len() as u64). *)
VecWriteLen(d) == Len(d)

(* self.write(data).await? returns a StreamError. *)
(* The Vec writer never fails.                                              *)
WriteFails ==
  /\ writer = "stream"
  /\ status = "writing"
  /\ data # <<>>
  /\ status' = "err"
  /\ UNCHANGED <<data, sink, given, readerVars>>

(* Mutant of SliceRead: the slice is not advanced past what was read. *)
SliceReadNoAdvance(len) ==
  LET n == Min({len, Len(sink) - pos})
  IN /\ got' = got \o SubSeq(sink, pos + 1, pos + n)
     /\ UNCHANGED pos

(* <&[u8] as AsyncRead>::read(len): len.min(self.len()) bytes are copied  *)
(* out and the slice becomes &self[len..].                                 *)
SliceRead(len) ==
  LET n == Min({len, Len(sink) - pos})
  IN /\ got' = got \o SubSeq(sink, pos + 1, pos + n)
     /\ pos' = pos + n

(* A read of the Vec once write_all has returned Ok. *)
ReadBack(len) ==
  /\ writer = "vec"
  /\ status = "ok"
  /\ SliceRead(len)
  /\ UNCHANGED <<data, sink, status, given, writer>>

Next ==
  \/ Done
  \/ writer = "stream" /\ \E len \in 0..MaxLen : WriteSome(len)
  \/ writer = "vec" /\ WriteSome(VecWriteLen(data))
  \/ WriteFails
  \/ \E len \in 0..MaxLen : ReadBack(len)

Spec == Init /\ [][Next]_vars

-----------------------------------------------------------------------------
(* write_all returns Ok only once the writer has accepted the whole        *)
(* buffer, each byte once and in order; while writing, and after an        *)
(* error, what it accepted is exactly the part before the slice still      *)
(* held, however the writer split the buffer.                              *)
WrittenExactly ==
  /\ status = "ok" => sink = given
  /\ status \in {"writing", "err"} => sink \o data = given

(* Bytes written with write_all into a Vec and read back through the       *)
(* &[u8] reader, in reads of any sizes, are the buffer given to write_all: *)
(* each read returns the next bytes, and once the slice is empty what     *)
(* was read is the whole buffer.                                           *)
ReadBackExact ==
  writer = "vec" /\ status = "ok" =>
    /\ got = SubSeq(given, 1, pos)
    /\ pos = Len(sink) => got = given
=============================================================================
