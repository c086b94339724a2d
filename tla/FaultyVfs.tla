------------------------------ MODULE FaultyVfs ------------------------------
(***************************************************************************)
(* FaultyVfs of src/vfs.rs: the simulated device that every crash test of  *)
(* the engine runs on.  It keeps a log of what it was asked to do and      *)
(* rebuilds from it what a crash may leave behind.                         *)
(*                                                                         *)
(* A file is a sequence of bytes; offsets count from 0.  The writes are    *)
(* those of the engine: whole units of UnitBytes bytes, a superblock slot  *)
(* or records behind the slots, each write with contents of its own.       *)
(***************************************************************************)
EXTENDS Integers, SequencesExt, FiniteSetsExt

CONSTANTS
    Size,        \* bound: units of the device
    UnitBytes,   \* bytes of a unit; more than one, so that a unit can tear
    MaxLog,      \* bound: entries of the log
    MaxWindow,   \* bound: entries between two syncs
    MaxWrite,    \* bound: units of one write
    Initials,    \* from_image: the units that the device starts with
    ArmedKinds,  \* the kinds of fates that a sync failure is armed with
    MaxArmed,    \* bound: how many fates
    MaxSkip,     \* bound: syncs to let through before the failure
    NoSB

ASSUME FaultyAssumption ==
    /\ Size \in Nat /\ UnitBytes \in Nat /\ UnitBytes > 1 /\ MaxLog \in Nat /\ MaxWindow \in Nat
    /\ MaxWrite \in Nat /\ MaxSkip \in Nat /\ MaxArmed \in Nat
    /\ Initials \subseteq 0 .. Size

VARIABLES
    view,          \* what the running engine reads
    durable,       \* what survives any crash
    initial,       \* the durable bytes from before the log
    log,           \* every write_all_at, set_len and sync
    window_start,  \* how many entries of the log precede the current window
    fail_sync      \* <<>>, or <<syncs to let through, fates>>

vars == <<view, durable, initial, log, window_start, fail_sync>>

DATA_START == 2

Fates == {"Drop", "Apply", "Zero"} \X {0}
            \cup {"Tear"} \X (0 .. (MaxWrite * UnitBytes - 1))

Write(off, data) == [op |-> "Write", off |-> off, data |-> data]

SetLen(len) == [op |-> "SetLen", len |-> len]

SyncOk == [op |-> "SyncOk"]

SyncFailed(fates) == [op |-> "SyncFailed", fates |-> fates]

IsSync(entry) == entry.op \in {"SyncOk", "SyncFailed"}

-----------------------------------------------------------------------------
(* Files                                                                   *)

Zeros(n) == [b \in 1 .. n |-> 0]

resize(buf, len) ==
    IF len <= Len(buf) THEN SubSeq(buf, 1, len) ELSE buf \o Zeros(len - Len(buf))

(* Faulty: a write of no bytes does nothing.                               *)
write_at_nonempty(buf, off, data) ==
    LET grown == resize(buf, Max({Len(buf), off + Len(data)}))
    IN IF data = <<>> THEN buf
       ELSE SubSeq(grown, 1, off) \o data \o SubSeq(grown, off + Len(data) + 1, Len(grown))

(* A write past the end fills the gap with zeros, even if it is empty.     *)
write_at(buf, off, data) ==
    LET end == off + Len(data)
        grown == resize(buf, Max({Len(buf), end}))
    IN SubSeq(grown, 1, off) \o data \o SubSeq(grown, end + 1, Len(grown))

(* What one entry of a window does to buf under a fate.                    *)
ApplyEntry(buf, entry, fate) ==
    IF fate[1] = "Drop" THEN buf
    ELSE IF entry.op = "SetLen" THEN resize(buf, entry.len)
    ELSE write_at(buf, entry.off,
                  CASE fate[1] = "Apply" -> entry.data
                    [] fate[1] = "Zero"  -> Zeros(Len(entry.data))
                    [] fate[1] = "Tear"  -> SubSeq(entry.data, 1,
                                                   fate[2] % (Len(entry.data) + 1)))

(* The i-th entry of a window has the i-th fate; missing ones are Apply.   *)
FateOf(fates, i) == IF i \in DOMAIN fates THEN fates[i] ELSE <<"Apply", 0>>

apply_window(buf, window, fates) ==
    LET applied[i \in 0 .. Len(window)] ==
            IF i = 0 THEN buf
            ELSE ApplyEntry(applied[i - 1], window[i], FateOf(fates, i))
    IN applied[Len(window)]

(* How many entries before log position pos are not synced.                *)
window_len_at(pos) == pos - Max({0} \cup {i \in 1 .. pos : IsSync(log[i])})

(* The bytes that were durable at position pos, when the log's own syncs   *)
(* are replayed on file from.                                              *)
Replayed(from, pos) ==
    LET replay[i \in 0 .. pos] ==
            IF i = 0 THEN from
            ELSE LET window == SubSeq(log, i - window_len_at(i - 1), i - 1)
                 IN CASE log[i].op = "SyncOk" -> apply_window(replay[i - 1], window, <<>>)
                      [] log[i].op = "SyncFailed" ->
                            apply_window(replay[i - 1], window, log[i].fates)
                      [] OTHER -> replay[i - 1]
    IN replay[pos]

(* Faulty: the replay begins with an empty file.                           *)
crash_image_from_empty(pos, fates) ==
    apply_window(Replayed(<<>>, pos), SubSeq(log, pos - window_len_at(pos) + 1, pos), fates)

(* The file after a crash at position pos of the log.                      *)
crash_image_at(pos, fates) ==
    apply_window(Replayed(initial, pos), SubSeq(log, pos - window_len_at(pos) + 1, pos), fates)

-----------------------------------------------------------------------------
(* The device                                                              *)

Window == SubSeq(log, window_start + 1, Len(log))

CrashImages ==
    {crash_image_at(Len(log), fates) : fates \in [1 .. window_len_at(Len(log)) -> Fates]}

Unit(v) == [b \in 1 .. UnitBytes |-> v]

from_image(units) ==
    LET image == FlattenSeq([u \in 1 .. units |-> Unit(u)])
    IN view = image /\ durable = image /\ initial = image

Init ==
    /\ \E units \in Initials : from_image(units)
    /\ log = <<>> /\ window_start = 0 /\ fail_sync = <<>>

(* Faulty: writes may hit what was written in their own window.            *)
OverlapAllowed(off, n) == TRUE

(* The assertion of write_all_at.                                          *)
Disjoint(off, n) ==
    \A i \in DOMAIN Window :
        Window[i].op = "Write" => \/ off + n <= Window[i].off
                                  \/ Window[i].off + Len(Window[i].data) <= off

write_all_at(off, data) ==
    /\ Disjoint(off, Len(data))
    /\ view' = write_at(view, off, data)
    /\ log' = Append(log, Write(off, data))
    /\ UNCHANGED <<durable, initial, window_start, fail_sync>>

set_len(len) ==
    /\ view' = resize(view, len)
    /\ log' = Append(log, SetLen(len))
    /\ UNCHANGED <<durable, initial, window_start, fail_sync>>

fail_nth_sync(skip, fates) ==
    /\ fail_sync' = <<skip, fates>>
    /\ UNCHANGED <<view, durable, initial, log, window_start>>

(* A sync ends the window, whether it succeeds or not.                     *)
CloseWindow(entry) ==
    /\ log' = Append(log, entry)
    /\ window_start' = Len(log) + 1

FailsNow == fail_sync # <<>> /\ fail_sync[1] = 0

sync ==
    /\ \/ /\ FailsNow
          /\ durable' = apply_window(durable, Window, fail_sync[2])
          /\ CloseWindow(SyncFailed(fail_sync[2]))
          /\ fail_sync' = <<>>
       \/ /\ ~FailsNow
          /\ durable' = apply_window(durable, Window, <<>>)
          /\ CloseWindow(SyncOk)
          /\ fail_sync' = IF fail_sync = <<>> THEN <<>>
                          ELSE <<fail_sync[1] - 1, fail_sync[2]>>
    /\ UNCHANGED <<view, initial>>

(* The contents of the next write.                                         *)
Stamp == Size + Len(log) + 1

(* What the engine writes, given by its first unit and its length.  A slot *)
(* is written only once both slots are inside the durable file.            *)
EngineWrite(u, n) ==
    /\ Len(log) < MaxLog /\ Len(Window) < MaxWindow
    /\ \/ u >= DATA_START /\ u + n <= Size
       \/ u < DATA_START /\ n = 1
          /\ Len(durable) >= DATA_START * UnitBytes
    /\ write_all_at(u * UnitBytes, [b \in 1 .. (n * UnitBytes) |-> Stamp])

EngineSetLen(u) ==
    /\ Len(log) < MaxLog /\ Len(Window) < MaxWindow
    /\ set_len(u * UnitBytes)

EngineSync == Len(log) < MaxLog /\ sync

Next ==
    \/ \E u \in 0 .. (Size - 1), n \in 1 .. MaxWrite : EngineWrite(u, n)
    \/ \E u \in DATA_START .. Size : EngineSetLen(u)
    \/ EngineSync
    \/ \E skip \in 0 .. MaxSkip, n \in 0 .. MaxArmed :
          \E fates \in [1 .. n -> {fate \in Fates : fate[1] \in ArmedKinds}] :
             fail_sync = <<>> /\ fail_nth_sync(skip, fates)

Spec == Init /\ [][Next]_vars

-----------------------------------------------------------------------------
(* The images that one more entry can leave of any of images.              *)
MoreImages(images, entry) ==
    {ApplyEntry(image, entry, fate) : image \in images, fate \in Fates}

(* The images that the entries of window, in this order, can leave of buf. *)
ImagesOf(buf, window) ==
    LET images[i \in 0 .. Len(window)] ==
            IF i = 0 THEN {buf} ELSE MoreImages(images[i - 1], window[i])
    IN images[Len(window)]

(* The log and the durable bytes, which are kept up to date sync by sync,  *)
(* tell the same story: crash_image_at finds exactly the images that the   *)
(* window can leave of what is really durable, after failed syncs too.     *)
ReplayExact == CrashImages = ImagesOf(durable, Window)

(* The window as open() and commit fill it: if the file is cut, that comes *)
(* first and no write straddles the cut.                                   *)
CutFirst ==
    \A i \in DOMAIN Window : Window[i].op = "SetLen" =>
        /\ i = 1
        /\ \A j \in {k \in 2 .. Len(Window) : Window[k].op = "Write"} :
              \/ Window[j].off >= Window[i].len
              \/ Window[j].off + Len(Window[j].data) <= Window[i].len

(* ADR-0010: because writes in a window are disjoint, nothing is missed by *)
(* tearing them in the order they were issued: whatever order the device   *)
(* applies them in, a crash leaves one of the images that are considered.  *)
ReorderingIgnorable ==
    CutFirst =>
        \A perm \in Bijection(DOMAIN Window, DOMAIN Window) :
            ImagesOf(durable, [i \in DOMAIN Window |-> Window[perm[i]]])
                \subseteq ImagesOf(durable, Window)

-----------------------------------------------------------------------------
(* A file of bytes as a file of module Format: a unit is readable if it    *)
(* holds the bytes of one write.                                           *)
FileOf(buf) ==
    LET whole(u) == /\ (u + 1) * UnitBytes <= Len(buf)
                    /\ buf[u * UnitBytes + 1] # 0
                    /\ \A b \in 1 .. UnitBytes :
                          buf[u * UnitBytes + b] = buf[u * UnitBytes + 1]
        at(u) == buf[u * UnitBytes + 1]
    IN [len  |-> (Len(buf) + UnitBytes - 1) \div UnitBytes,
        slot |-> [s \in {0, 1} |-> IF whole(s) THEN at(s) ELSE NoSB],
        data |-> [u \in DATA_START .. (Size - 1) |-> IF whole(u) THEN at(u) ELSE 0]]

Settled == FileOf(apply_window(durable, Window, <<>>))

Images == {FileOf(image) : image \in ImagesOf(durable, Window)}

UnitsOf(w) == (w.off \div UnitBytes) .. ((w.off + Len(w.data)) \div UnitBytes - 1)

Unsynced == UNION {UnitsOf(Window[i]) : i \in {j \in DOMAIN Window : Window[j].op = "Write"}}

V == INSTANCE Vfs WITH view <- FileOf(view), settled <- Settled, images <- Images,
                       unsynced <- Unsynced, overlapped <- FALSE

VfsStep ==
    \/ \E u \in DATA_START .. (Size - 1), n \in 1 .. MaxWrite :
          V!WriteData(u, n, V!Constantly(Stamp))
    \/ \E s \in V!Slots : V!WriteSlot(s, Stamp)
    \/ \E len \in DATA_START .. Size : V!SetLen(len)
    \/ V!SyncOk
    \/ V!SyncFail

(* The device implements module Vfs, on which the commit protocol is       *)
(* checked and proved: the images that module keeps are exactly those that *)
(* the log can be replayed to.                                             *)
ImplementsVfs ==
    /\ FileOf(view) = Settled /\ Images = {Settled} /\ Unsynced = {}
    /\ [][VfsStep]_(V!vfsVars)
=============================================================================
