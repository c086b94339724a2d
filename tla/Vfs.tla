-------------------------------- MODULE Vfs ---------------------------------
(***************************************************************************)
(* The storage device under the engine: the Vfs trait of src/vfs.rs with   *)
(* the crash model of FaultyVfs (ADR-0010).                                *)
(*                                                                         *)
(* FaultyVfs keeps the operation log and rebuilds crash images from it.    *)
(* Here the set of all those images is the state: `images` is              *)
(* { crash_image_at(now, fates) : fates }, and `settled` is what the       *)
(* durable bytes become when the current window is applied in full.        *)
(***************************************************************************)
EXTENDS Format

VARIABLES
    view,        \* what the running process reads: the page cache
    settled,     \* the durable bytes plus the whole un-synced window
    images,      \* every file a machine crash may leave behind now
    unsynced,    \* units written since the last sync
    overlapped   \* a write hit a unit already written in its window

vfsVars == <<view, settled, images, unsynced, overlapped>>

VfsInit ==
    /\ view = EmptyFile
    /\ settled = EmptyFile
    /\ images = {EmptyFile}
    /\ unsynced = {}
    /\ overlapped = FALSE

Longer(len, end) == IF len < end THEN end ELSE len

(* write_at: n units from off take the contents vals.  The file grows to   *)
(* the end of the write, even when a tear left no unit of it.              *)
Patch(f, off, n, vals) ==
    [f EXCEPT !.len = Longer(@, off + n),
              !.data = [u \in Units |-> IF off <= u /\ u < off + n
                                        THEN vals[u] ELSE f.data[u]]]

PatchSlot(f, s, content) ==
    [f EXCEPT !.len = Longer(@, s + 1), !.slot[s] = content]

Constantly(x) == [u \in Units |-> x]

(* The fates of one data write: dropped, applied, zero-filled over its     *)
(* extent, or torn after k units with unit k either untouched or mangled.  *)
DataFates(f, off, n, vals) ==
    {f, Patch(f, off, n, Constantly(Bad))}
      \cup {Patch(f, off, k, vals) : k \in 0 .. n}
      \cup {Patch(f, off, k, [vals EXCEPT ![off + k - 1] = Bad]) : k \in 1 .. n}

(* A slot is one checksummed unit: its old contents, the new ones, or      *)
(* bytes that do not decode (zero-filled or torn).                         *)
SlotFates(f, s, content) ==
    {f, PatchSlot(f, s, content), PatchSlot(f, s, NoSB)}

Resize(f, len) ==
    [f EXCEPT !.len = len,
              !.slot = [s \in Slots |-> IF s < len THEN f.slot[s] ELSE NoSB],
              !.data = [u \in Units |-> IF u < len THEN f.data[u] ELSE Bad]]

Extent(off, n) == {u \in Units : off <= u /\ u < off + n}

(* write_all_at of n data units at off.                                    *)
WriteData(off, n, vals) ==
    /\ view' = Patch(view, off, n, vals)
    /\ settled' = Patch(settled, off, n, vals)
    /\ images' = UNION {DataFates(i, off, n, vals) : i \in images}
    /\ unsynced' = unsynced \cup Extent(off, n)
    /\ overlapped' = (overlapped \/ Extent(off, n) \cap unsynced # {})

(* write_all_at of one superblock slot.                                    *)
WriteSlot(s, content) ==
    /\ view' = PatchSlot(view, s, content)
    /\ settled' = PatchSlot(settled, s, content)
    /\ images' = UNION {SlotFates(i, s, content) : i \in images}
    /\ unsynced' = unsynced \cup {s}
    /\ overlapped' = (overlapped \/ s \in unsynced)

(* set_len: atomic, so a crash either drops it or applies it.              *)
SetLen(len) ==
    /\ view' = Resize(view, len)
    /\ settled' = Resize(settled, len)
    /\ images' = images \cup {Resize(i, len) : i \in images}
    /\ UNCHANGED <<unsynced, overlapped>>

(* sync: the whole window becomes durable.                                 *)
SyncOk ==
    /\ images' = {settled}
    /\ unsynced' = {}
    /\ UNCHANGED <<view, settled, overlapped>>

(* A failed sync: some subset of the window is durable, the rest is        *)
(* discarded for good, and the page cache still shows all of it.           *)
SyncFail ==
    /\ \E i \in images : settled' = i /\ images' = {i}
    /\ unsynced' = {}
    /\ UNCHANGED <<view, overlapped>>

(* The machine dies; the next process reads one of the crash images.       *)
PowerLoss ==
    /\ \E i \in images : view' = i /\ settled' = i /\ images' = {i}
    /\ unsynced' = {}
    /\ UNCHANGED overlapped

(* The page cache shows superblock slots that no sync will ever make       *)
(* durable: a failed sync discarded them.                                  *)
Lost == view.slot # settled.slot
=============================================================================
