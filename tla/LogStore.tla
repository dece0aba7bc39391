------------------------------ MODULE LogStore ------------------------------
(***************************************************************************)
(* The append log of one Attempt's output: the wrapper's Store                *)
(* (src/internal/logstore/store.go) and the daemon's Readers of the same file  *)
(* (src/internal/logstore/reader.go).                                        *)
(*                                                                         *)
(* The file is a sequence of cells: the data cells of a frame, the first of    *)
(* which holds its prefix, and its commit marker.  A frame is written in two    *)
(* parts, each followed by a sync, under a commit lock that is kept after a     *)
(* failure.  A reader takes the lock only to learn the size of the file and     *)
(* scans later.  The wrapper may die between any two steps, which frees its      *)
(* locks and leaves what it wrote; the machine may lose power, and then what    *)
(* was not synced may be there in part or be garbled.                         *)
(***************************************************************************)
EXTENDS Naturals, Sequences, FiniteSets

CONSTANTS
    Streams,
    Sizes,       \* the numbers of data cells a frame may have
    MaxFrames,   \* bound on the cursor
    Readers,
    MaxFaults    \* bounds on failures and deaths, or on failures and power losses

Perils == {"death", "power"}

LogAssumption == Sizes \subseteq Nat \ {0} /\ MaxFrames \in Nat /\ MaxFaults \in [Perils -> Nat]

Frames == [cursor : 1 .. MaxFrames, stream : Streams, sequence : 1 .. MaxFrames, size : Sizes]
NoFrame == [cursor |-> 0]

\* Part size + 1 is the marker, part 0 a cell that a power loss garbled.
Cell(f, part) == [frame |-> f, part |-> part]
EncodeFrame(f) == [i \in 1 .. f.size + 1 |-> Cell(f, i)]

VARIABLES
    file,    \* the cells of the file
    disk,    \* its cells as of the last sync
    writer,  \* the Store
    acked,   \* the frames whose Append has returned
    refused, \* an Open met a corrupt file
    reader,  \* [Readers -> the snapshot under way]
    served,  \* the frames that readers have returned
    faults,
    peril    \* whether the wrapper dies or the machine loses power

vars == <<file, disk, writer, acked, refused, reader, served, faults, peril>>

Steps == {"closed", "truncated", "ready", "write", "sync", "marker", "syncmarker", "publish", "poisoned", "closing"}

\* The type invariant of LogStore.
TypeOK ==
    /\ \A cells \in {file, disk} : \A i \in 1 .. Len(cells) :
           cells[i].frame \in Frames /\ cells[i].part \in 0 .. cells[i].frame.size + 1
    /\ writer.step \in Steps /\ writer.confirmed \in 0 .. Len(file)
    /\ writer.frame \in Frames \cup {NoFrame}
    /\ writer.index \in Seq(Frames) /\ acked \subseteq Frames /\ refused \in BOOLEAN
    /\ reader \in [Readers -> [step : {"idle", "scan"}, size : Nat]]
    /\ served \subseteq Frames /\ peril \in Perils /\ faults \in 0 .. MaxFaults[peril]

-----------------------------------------------------------------------------
(* The scan                                                                  *)

Of(stream, frames) == {i \in DOMAIN frames : frames[i].stream = stream}

\* Cursors count all frames and sequences those of a stream, both from one.
Ordered(frames) ==
    \A i \in DOMAIN frames :
        /\ frames[i].cursor = i
        /\ frames[i].sequence = Cardinality(Of(frames[i].stream, frames) \cap (1 .. i))

Stop(offset, verdict) == [frames |-> <<>>, valid |-> offset, verdict |-> verdict]

\* scanFramePage, from each offset on: the frames of the cells, how many cells
\* they take, and whether the rest is nothing, an incomplete frame ("tail"), a
\* whole one with an invalid marker at the end ("torn") or corrupt.
Walk(cells) ==
    LET walk[offset \in 0 .. Len(cells)] ==
            IF offset = Len(cells) THEN Stop(offset, "whole")
            ELSE LET f == cells[offset + 1].frame
                     end == offset + f.size + 1 IN
                 IF end > Len(cells) THEN Stop(offset, "tail")
                 ELSE IF \E i \in 1 .. f.size : cells[offset + i] # Cell(f, i) THEN Stop(offset, "corrupt")
                 ELSE IF cells[end] # Cell(f, f.size + 1)
                      THEN Stop(offset, IF end = Len(cells) THEN "torn" ELSE "corrupt")
                 ELSE [walk[end] EXCEPT !.frames = <<f>> \o @]
    IN walk

ScanFramePage(cells) ==
    LET scan == Walk(cells)[0] IN IF Ordered(scan.frames) THEN scan ELSE Stop(0, "corrupt")

-----------------------------------------------------------------------------
(* Open                                                                      *)

Fault == faults < MaxFaults[peril] /\ faults' = faults + 1
Closed == [step |-> "closed", confirmed |-> 0, frame |-> NoFrame, index |-> <<>>]

Init ==
    /\ file = <<>> /\ disk = <<>> /\ writer = Closed /\ acked = {} /\ refused = FALSE
    /\ reader = [r \in Readers |-> [step |-> "idle", size |-> 0]] /\ served = {} /\ faults = 0
    /\ peril \in Perils

Opened(step, scan) == [Closed EXCEPT !.step = step, !.confirmed = scan.valid, !.index = scan.frames]

\* Open keeps every whole frame, cuts an incomplete or torn one off the end,
\* and refuses a file that is corrupt before it.
Open ==
    /\ writer.step = "closed"
    /\ LET scan == ScanFramePage(file) IN
       \/ scan.verdict = "whole" /\ writer' = Opened("ready", scan) /\ UNCHANGED <<file, refused>>
       \/ /\ scan.verdict \in {"tail", "torn"} /\ file' = SubSeq(file, 1, scan.valid)
          /\ writer' = Opened("truncated", scan) /\ UNCHANGED refused
       \/ scan.verdict = "corrupt" /\ refused' = TRUE /\ UNCHANGED <<file, writer>>
    /\ UNCHANGED <<disk, acked, reader, served, faults, peril>>

\* truncateIncompleteTail: the cut is synced before Open returns.
TruncateIncompleteTail ==
    /\ writer.step = "truncated" /\ disk' = file /\ writer' = [writer EXCEPT !.step = "ready"]
    /\ UNCHANGED <<file, acked, refused, reader, served, faults, peril>>

OpenFails ==
    /\ writer.step = "truncated" /\ Fault /\ writer' = Closed
    /\ UNCHANGED <<file, disk, acked, refused, reader, served, peril>>

-----------------------------------------------------------------------------
(* Append                                                                    *)

Goto(step) == writer' = [writer EXCEPT !.step = step]

\* The next positions are those of the index; then the commit lock is taken.
AppendFrame(stream, size) ==
    /\ writer.step = "ready" /\ Len(writer.index) < MaxFrames
    /\ writer' = [writer EXCEPT !.step = "write",
           !.frame = [cursor |-> Len(writer.index) + 1, stream |-> stream,
                      sequence |-> Cardinality(Of(stream, writer.index)) + 1, size |-> size]]
    /\ UNCHANGED <<file, disk, acked, refused, reader, served, faults, peril>>

Written == {i \in writer.confirmed + 1 .. Len(file) : file[i].frame = writer.frame}

\* A write may stop after any cell.
WriteFull ==
    /\ writer.step = "write"
    /\ LET n == Cardinality(Written) + 1 IN
           file' = file \o <<Cell(writer.frame, n)>> /\ Goto(IF n = writer.frame.size THEN "sync" ELSE "write")
    /\ UNCHANGED <<disk, acked, refused, reader, served, faults, peril>>

Sync ==
    /\ writer.step = "sync" /\ disk' = file /\ Goto("marker")
    /\ UNCHANGED <<file, acked, refused, reader, served, faults, peril>>

\* Mutant: the frame is published before its marker is synced.
Mut_PublishUnsynced ==
    /\ writer.step = "marker" /\ file' = file \o <<Cell(writer.frame, writer.frame.size + 1)>>
    /\ Goto("publish") /\ UNCHANGED <<disk, acked, refused, reader, served, faults, peril>>

WriteMarker ==
    /\ writer.step = "marker" /\ file' = file \o <<Cell(writer.frame, writer.frame.size + 1)>>
    /\ Goto("syncmarker") /\ UNCHANGED <<disk, acked, refused, reader, served, faults, peril>>

SyncMarker ==
    /\ writer.step = "syncmarker" /\ disk' = file /\ Goto("publish")
    /\ UNCHANGED <<file, acked, refused, reader, served, faults, peril>>

\* The commit lock is released and the frame enters the index.
Publish ==
    /\ writer.step = "publish" /\ acked' = acked \cup {writer.frame}
    /\ writer' = [writer EXCEPT !.step = "ready", !.frame = NoFrame,
                      !.confirmed = @ + writer.frame.size + 1, !.index = Append(@, writer.frame)]
    /\ UNCHANGED <<file, disk, refused, reader, served, faults, peril>>

Appending == {"write", "sync", "marker", "syncmarker", "publish"}

\* Any step of an Append may fail; the Store keeps the commit lock and appends
\* nothing until it was reopened.
AppendFails ==
    /\ writer.step \in Appending /\ Fault /\ Goto("poisoned")
    /\ UNCHANGED <<file, disk, acked, refused, reader, served, peril>>

\* A poisoned Store cuts what it did not confirm before its lock is released.
Close ==
    /\ \/ writer.step = "ready" /\ writer' = Closed /\ UNCHANGED file
       \/ /\ writer.step = "poisoned" /\ file' = SubSeq(file, 1, writer.confirmed)
          /\ writer' = [writer EXCEPT !.step = "closing"]
    /\ UNCHANGED <<disk, acked, refused, reader, served, faults, peril>>

CloseSync ==
    /\ writer.step = "closing" /\ disk' = file /\ writer' = Closed
    /\ UNCHANGED <<file, acked, refused, reader, served, faults, peril>>

CloseFails ==
    /\ writer.step = "closing" /\ Fault /\ Goto("poisoned")
    /\ UNCHANGED <<file, disk, acked, refused, reader, served, peril>>

-----------------------------------------------------------------------------
(* Readers                                                                   *)

CommitLockFree == writer.step \in {"closed", "ready"}

\* The size is captured between two appends, never in one.
Snapshot(r) ==
    /\ reader[r].step = "idle" /\ CommitLockFree
    /\ reader' = [reader EXCEPT ![r] = [step |-> "scan", size |-> Len(file)]]
    /\ UNCHANGED <<file, disk, writer, acked, refused, served, faults, peril>>

\* The cells up to the size are scanned while the file may grow or be cut; an
\* incomplete end is ignored, anything else is an error.
Read(r) ==
    /\ reader[r].step = "scan" /\ reader' = [reader EXCEPT ![r] = [step |-> "idle", size |-> 0]]
    /\ \/ Len(file) < reader[r].size /\ UNCHANGED served
       \/ /\ Len(file) >= reader[r].size
          /\ LET scan == ScanFramePage(SubSeq(file, 1, reader[r].size)) IN
             served' = served \cup (IF scan.verdict \in {"whole", "tail"}
                                    THEN {scan.frames[i] : i \in DOMAIN scan.frames} ELSE {})
    /\ UNCHANGED <<file, disk, writer, acked, refused, faults, peril>>

-----------------------------------------------------------------------------
(* Deaths and power losses                                                   *)

\* The kernel closes the files of the wrapper, and with them its locks.
Die ==
    /\ peril = "death" /\ writer.step # "closed" /\ Fault /\ writer' = Closed
    /\ UNCHANGED <<file, disk, acked, refused, reader, served, peril>>

\* What both have is there; beyond, any part of one of them, with cells other
\* than the prefix of a frame garbled.
Common == CHOOSE n \in 0 .. Len(disk) :
    /\ n <= Len(file) /\ SubSeq(file, 1, n) = SubSeq(disk, 1, n)
    /\ n < Len(file) /\ n < Len(disk) => file[n + 1] # disk[n + 1]

Garble(cells, garbled) == [i \in DOMAIN cells |-> IF i \in garbled THEN Cell(cells[i].frame, 0) ELSE cells[i]]

Outcomes ==
    UNION {UNION {{Garble(SubSeq(cells, 1, n), garbled) :
                       garbled \in SUBSET {i \in Common + 1 .. n : cells = file /\ cells[i].part # 1}} :
                  n \in Common .. Len(cells)} :
           cells \in {file, disk}}

PowerLoss ==
    /\ peril = "power" /\ Fault /\ file' \in Outcomes /\ disk' = file'
    /\ writer' = Closed /\ reader' = [r \in Readers |-> [step |-> "idle", size |-> 0]]
    /\ UNCHANGED <<acked, refused, served, peril>>

Next ==
    \/ Open \/ TruncateIncompleteTail \/ OpenFails
    \/ \E stream \in Streams, size \in Sizes : AppendFrame(stream, size)
    \/ WriteFull \/ Sync \/ WriteMarker \/ SyncMarker \/ Publish \/ AppendFails
    \/ Close \/ CloseSync \/ CloseFails
    \/ \E r \in Readers : Snapshot(r) \/ Read(r)
    \/ Die \/ PowerLoss

Spec == Init /\ [][Next]_vars

-----------------------------------------------------------------------------
(* Properties                                                                *)

\* Every frame of the set is in the log at its cursor, and would be if the
\* machine lost power now.
Lasts(frames) ==
    \A cells \in Outcomes :
        LET log == ScanFramePage(cells).frames IN
        \A f \in frames : f.cursor <= Len(log) /\ log[f.cursor] = f

\* A frame whose Append returned is in the log ever after, whatever fails, dies
\* or loses power (Append of the Store).
AckedLasts == Lasts(acked)

\* No failure, death or power loss leaves a file that Open takes for corrupt
\* (the two syncs of Append, truncateIncompleteTail).
OpensAgain == ~refused

\* The index of an open Store is that of the file up to the confirmed size, so
\* its own Read never fails and no position is given twice (Read of the Store).
IndexIsFile ==
    writer.step \notin {"closed", "truncated"} =>
        LET scan == ScanFramePage(SubSeq(file, 1, writer.confirmed)) IN
        scan.verdict = "whole" /\ scan.frames = writer.index
=============================================================================
