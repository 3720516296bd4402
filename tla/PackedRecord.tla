----------------------------- MODULE PackedRecord -----------------------------
(***************************************************************************)
(* One packed expert (olmoe/streaming/packed.rs): a header of fixed size,  *)
(* then the gate, up and down matrices of one expert, each in its scalar   *)
(* type's bytes.  encode_raw writes a record, parse accepts or refuses one *)
(* for the geometry that is expected of it.                                *)
(*                                                                         *)
(* A byte of a matrix is a value that says where it comes from; a header   *)
(* is the record of the fields parse reads.  Sizes are machine words: a    *)
(* number from Word on does not fit.  Word stands for 2^64 and is small    *)
(* here so that sizes do reach it.                                         *)
(***************************************************************************)
EXTENDS Naturals, Sequences, Functions

CONSTANTS
    Word,      \* the first number that does not fit a size
    Refused    \* the result of an operation that fails

ASSUME WordAssumption == Word \in Nat \ {0}

-----------------------------------------------------------------------------
HeaderBytes == 64

Scalars == {"f32", "bf16"}

ByteWidth(scalar) == IF scalar = "f32" THEN 4 ELSE 2

\* checked_add, checked_mul: the operation fails when the result does not fit.
DoesFit(n) == n < Word

SectionBytes(moe, scalar) == moe.hidden * moe.intermediate * ByteWidth(scalar)

\* Bytes of a record with sections of one size.
RecordBytes(section) == HeaderBytes + 3 * section

\* A section holds no NaN and no infinity, and whole scalars.
ValidScalars(bytes, scalar) ==
    /\ Len(bytes) % ByteWidth(scalar) = 0
    /\ \A n \in DOMAIN bytes : bytes[n].finite

\* The payload: gate, up, down, one after the other.
Payload(gate, up, down) == gate \o up \o down

\* The record of one expert, refused unless the three sections have exactly the
\* size the geometry gives them and hold finite values.
EncodeRaw(moe, scalar, gate, up, down) ==
    LET section == SectionBytes(moe, scalar) IN
    IF /\ DoesFit(section) /\ DoesFit(RecordBytes(section))
       /\ \A s \in {gate, up, down} : Len(s) = section /\ ValidScalars(s, scalar)
    THEN [scalar |-> scalar, hidden |-> moe.hidden, intermediate |-> moe.intermediate,
          lengths |-> <<section, section, section>>, payload |-> 3 * section,
          bytes |-> Payload(gate, up, down)]
    ELSE Refused

EncodedLength(record) == HeaderBytes + Len(record.bytes)

\* Section n of a record, counted from zero, for the expected geometry.
Section(record, moe, n) ==
    LET section == SectionBytes(moe, record.scalar)
    IN SubSeq(record.bytes, n * section + 1, (n + 1) * section)

\* Every header field agrees with the expected geometry and with the bytes that
\* are there.
CanParse(record, moe) ==
    LET section == SectionBytes(moe, record.scalar) IN
    /\ record.hidden = moe.hidden /\ record.intermediate = moe.intermediate
    /\ record.lengths = <<section, section, section>>
    /\ DoesFit(RecordBytes(section))
    /\ record.payload = 3 * section
    /\ EncodedLength(record) = RecordBytes(section)
    /\ \A n \in 0..2 : ValidScalars(Section(record, moe, n), record.scalar)

\* The three sections of a record, refused if its header is wrong.
Parse(record, moe) ==
    IF CanParse(record, moe)
    THEN [gate |-> Section(record, moe, 0), up |-> Section(record, moe, 1),
          down |-> Section(record, moe, 2)]
    ELSE Refused

=============================================================================
