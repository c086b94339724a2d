------------------------------- MODULE Format -------------------------------
(***************************************************************************)
(* The database file as src/format.rs lays it out and open() reads it.     *)
(*                                                                         *)
(* The file is measured in units.  Units 0 and 1 are the two superblock    *)
(* slots; node records start at unit DATA_START.  A data unit holds the    *)
(* stamp of the commit that wrote it, or Bad when its bytes would fail the *)
(* record checksum (zero fill, a torn record, bytes never written).  A     *)
(* slot holds a superblock, or NoSB when decode_slot would reject it.      *)
(*                                                                         *)
(* A superblock stores root_offset; the records reachable from that root   *)
(* are what recovery will read.  The model keeps them explicitly: refs[u]  *)
(* is the stamp that the tree below root_offset expects in unit u, or Bad  *)
(* when that tree does not use unit u.                                     *)
(***************************************************************************)
EXTENDS Integers

CONSTANTS Size,     \* capacity of the device, in units
          NoSB      \* the contents of a slot that does not decode

DATA_START == 2

Bad == 0

Slots == {0, 1}

Units == DATA_START .. (Size - 1)

Superblock == [generation : Nat, watermark : Nat, last_seq : Nat,
               refs : [Units -> Nat]]

ASSUME SizeAssumption == Size \in Nat /\ Size > DATA_START
ASSUME NoSBAssumption == NoSB \notin Superblock

File == [len : Nat, slot : [Slots -> Superblock \cup {NoSB}],
         data : [Units -> Nat]]

EmptyFile == [len |-> 0, slot |-> [s \in Slots |-> NoSB],
              data |-> [u \in Units |-> Bad]]

(* Generation g lives in slot g mod 2: the active slot flips by            *)
(* generation, not by position.                                            *)
SlotOf(g) == g % 2

(* The slots open() considers: wholly inside the file, decodable, and not  *)
(* claiming more data than the file holds.                                 *)
Readable(f, s) == /\ s < f.len
                  /\ f.slot[s] # NoSB
                  /\ f.slot[s].watermark <= f.len

(* Faulty: the first readable slot wins, whatever its generation.          *)
BestFirst(f) ==
    IF Readable(f, 0) THEN f.slot[0]
    ELSE IF Readable(f, 1) THEN f.slot[1] ELSE NoSB

(* What open() recovers from file f: the readable superblock of highest    *)
(* generation, the first slot winning a tie, or NoSB (NoValidSuperblock).  *)
Best(f) ==
    IF Readable(f, 0) /\ (Readable(f, 1) => f.slot[1].generation <= f.slot[0].generation)
    THEN f.slot[0]
    ELSE IF Readable(f, 1) THEN f.slot[1] ELSE NoSB

(* Every record the tree of superblock sb reaches is in file f, unchanged. *)
Intact(f, sb) == \A u \in Units : sb.refs[u] # Bad => f.data[u] = sb.refs[u]
=============================================================================
