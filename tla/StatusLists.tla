----------------------------- MODULE StatusLists ----------------------------
(***************************************************************************)
(* openvc.status: the two encodings of a status list, the pointer an       *)
(* issuer puts into a credential and what a verifier reads back from it,   *)
(* and the resolvers that authenticate a fetched list.                     *)
(*                                                                         *)
(* A list is a sequence of bytes.  A JSON number or string that should be  *)
(* an index is [form, n]: what kind of value it is, and the number it      *)
(* spells.  Compression and base64url keep the bytes and are told apart by *)
(* the name of the stream.                                                 *)
(***************************************************************************)
EXTENDS Integers, Sequences, Checks

CONSTANTS
  MaxBytes,      \* MAX_DECOMPRESSED_BYTES
  Refused,       \* StatusListError, where a value is expected
  Nothing

MaxStatusIndex == MaxBytes * 8

----------------------------------------------------------------------------
(***************************************************************************)
(* The rule for an index and for a size, and where a status sits.          *)
(***************************************************************************)
StatusIndex(v, strings) ==
  IF /\ v.form = "int" \/ (strings /\ v.form = "digits")
     /\ v.n \in 0..(MaxStatusIndex - 1)
  THEN v.n ELSE Refused

PackedLength(size, perByte) ==
  LET n == (size + perByte - 1) \div perByte
  IN  IF size < 0 \/ n > MaxBytes THEN Refused ELSE n

\* The byte (from 1) and the position in it, of a list of `len` bytes.
Locate(index, perByte, len) ==
  IF index \div perByte < len
  THEN [byte |-> index \div perByte + 1, pos |-> index % perByte] ELSE Refused

\* `width` bits of a byte, from bit `low` up.
Field(byte, low, width) == (byte \div 2^low) % 2^width

WithField(byte, low, width, v) == byte + (v - Field(byte, low, width)) * 2^low

----------------------------------------------------------------------------
(***************************************************************************)
(* W3C: one bit a status, the first in the top bit of a byte.              *)
(***************************************************************************)
NewBitstring(size) == [n \in 1..PackedLength(size, 8) |-> 0]

GetStatusBit(bytes, index) ==
  LET at == Locate(index, 8, Len(bytes))
  IN  IF at = Refused THEN Refused ELSE Field(bytes[at.byte], 7 - at.pos, 1)

SetStatusBit(bytes, index, v) ==
  LET at == Locate(index, 8, Len(bytes))
  IN  [bytes EXCEPT ![at.byte] = WithField(@, 7 - at.pos, 1, v)]

(***************************************************************************)
(* IETF: 1, 2, 4 or 8 bits a status, the first in the lowest bits.         *)
(***************************************************************************)
NewStatusList(size, bits) == [n \in 1..PackedLength(size, 8 \div bits) |-> 0]

GetStatus(bytes, index, bits) ==
  LET at == Locate(index, 8 \div bits, Len(bytes))
  IN  IF bits \notin {1, 2, 4, 8} \/ at = Refused THEN Refused
      ELSE Field(bytes[at.byte], at.pos * bits, bits)

PutStatus(bytes, index, v, bits) ==
  LET at == Locate(index, 8 \div bits, Len(bytes))
  IN  [bytes EXCEPT ![at.byte] = WithField(@, at.pos * bits, bits, v)]

StatusInvalid == 1
StatusSuspended == 2

Encode(stream, bytes) == [stream |-> stream, bytes |-> bytes]

\* decode_bitstring (gzip), decode_status_list (zlib): a bounded inflation.
Decode(stream, enc) ==
  IF enc.stream = stream /\ Len(enc.bytes) <= MaxBytes THEN enc.bytes ELSE Refused

----------------------------------------------------------------------------
(***************************************************************************)
(* What the issuer builds: the list, unsigned or as a signed token, and    *)
(* the pointer that goes into a credential.                                *)
(***************************************************************************)
BuildListCredential(issuer, purpose, bytes) ==
  [typ |-> "vc", issuer |-> issuer, purpose |-> purpose, bits |-> 1,
   list |-> Encode("gzip", bytes), fresh |-> TRUE]

BuildListToken(issuer, uri, bytes, bits) ==
  [typ |-> "statuslist+jwt", issuer |-> issuer, sub |-> uri, bits |-> bits,
   list |-> Encode("zlib", bytes), fresh |-> TRUE]

BuildListEntry(url, index, purpose) ==
  [form |-> "object", type |-> "list", url |-> url, index |-> [form |-> "digits", n |-> index],
   purpose |-> purpose]

BuildTokenReference(uri, index) ==
  [form |-> "ref", uri |-> uri, index |-> [form |-> "int", n |-> index]]

----------------------------------------------------------------------------
(***************************************************************************)
(* What the verifier makes of the pointers: "none" when there is no        *)
(* status, "odd" when there is one of another kind, "entries" when it can  *)
(* be looked up, "malformed" when it raises.                               *)
(***************************************************************************)
EntryChecks(e) ==
  << Check(e.form = "object",                                              "member"),
     Check(e.form = "object" => e.type # "absent",                         "type"),
     Check(e.form = "object" /\ e.type = "list" =>
             e.url # Nothing /\ StatusIndex(e.index, TRUE) # Refused,       "pointer") >>

\* An entry nobody can read is dropped, with its bit.
W3cShapeFiltered(raw) ==
  LET good == {n \in DOMAIN raw : FirstError(EntryChecks(raw[n])) = "ok"}
  IN  IF raw = <<>> \/ good = {} THEN "none"
      ELSE IF \E n \in good : raw[n].type = "list" THEN "entries" ELSE "odd"

W3cShape(raw) ==
  IF raw = <<>> THEN "none"
  ELSE IF \E n \in DOMAIN raw : FirstError(EntryChecks(raw[n])) # "ok" THEN "malformed"
  ELSE IF \E n \in DOMAIN raw : raw[n].type = "list" THEN "entries"
  ELSE "odd"

\* The entries that are looked up, by their place.
ParseStatusEntries(raw) ==
  {n \in DOMAIN raw : raw[n].form = "object" /\ raw[n].type = "list"}

IetfShape(raw) ==
  IF raw = Nothing THEN "none"
  ELSE IF raw.form # "ref" THEN "odd"
  ELSE IF raw.uri = Nothing \/ StatusIndex(raw.index, FALSE) = Refused THEN "malformed"
  ELSE "entries"

----------------------------------------------------------------------------
(***************************************************************************)
(* default_status_list_resolver and its token twin.  What the host serves  *)
(* is the list, who really signed it and whether its times hold: the       *)
(* default policy refuses a list credential that has expired.  A list that *)
(* names nobody is its signer's.                                           *)
(***************************************************************************)
ResolveList(served, signer) ==
  IF ~ served.fresh \/ served.issuer \notin {Nothing, signer} THEN Refused
  ELSE [served EXCEPT !.issuer = signer]

ResolveToken(served, signer, uri) ==
  IF FirstError(<< Check(served.issuer # Nothing,             "iss"),
                   Check(served.issuer = signer,             "signature"),
                   Check(served.typ = "statuslist+jwt",      "typ"),
                   Check(served.sub = uri,                   "sub"),
                   Check(served.fresh,                       "temporal") >>) # "ok"
  THEN Refused ELSE served

\* _read_status_bit: whether the bit an entry points at is set, or Refused.
ReadStatusBit(list, entry) ==
  LET bytes == Decode("gzip", list.list)
  IN  IF list.purpose \notin {Nothing, entry.purpose} \/ bytes = Refused THEN Refused
      ELSE GetStatusBit(bytes, StatusIndex(entry.index, TRUE))

\* _token_status_result: the purposes that the status stands for.
TokenStatus(token, ref) ==
  LET bytes == Decode("zlib", token.list)
  IN  IF bytes = Refused THEN Refused
      ELSE GetStatus(bytes, StatusIndex(ref.index, FALSE), token.bits)
=============================================================================
