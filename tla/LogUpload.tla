----------------------------- MODULE LogUpload -----------------------------
(***************************************************************************)
(* The log uploader (src/sdk_src/services/log/log_upload.c).  Any thread   *)
(* appends log records to sg_log_buffer under lock_buf; do_log_upload, run *)
(* by the thread that yields, posts them over HTTP in fragments of whole   *)
(* records without holding the lock, moves what is left to the front, and  *)
(* saves in the user's storage what could not be posted.  A message on the *)
(* log topic (log_mqtt.c) may empty the buffer at any time, also while an  *)
(* upload that has read its size goes on: what the buffer holds is then    *)
(* not what the upload's locals say, and `disturbed' records it.           *)
(*                                                                         *)
(* The buffer is a function from 0-based indices to cells.  A cell stands  *)
(* for some bytes of a record: <<n, left>> belongs to record n and has     *)
(* `left' more cells of that record after it; left = 0 is the cell with    *)
(* the delimiter.  Zero is a cleared byte, which ends what strstr scans.   *)
(* Timers are abstracted: upload_timer may be expired or not at any time.  *)
(***************************************************************************)
EXTENDS Integers, FiniteSets, SequencesExt

CONSTANTS
  LOG_BUF_FIXED_HEADER_SIZE,
  LOG_UPLOAD_BUFFER_SIZE,
  LOG_LOW_BUFFER_THRESHOLD,
  MAX_HTTP_LOG_POST_SIZE,
  MAX_LOG_SAVE_SIZE,
  Sizes,            \* sizes of a record, in cells
  MaxLogs,          \* bound: records appended
  MaxFaults,        \* bound: HTTP, storage and connection failures
  MaxReboots,       \* bound: restarts of the device
  MaxLevels         \* bound: messages on the log topic

HDR == LOG_BUF_FIXED_HEADER_SIZE

ASSUME SizesAssumption ==
  /\ HDR \in Nat \ {0}
  /\ Sizes \subseteq Nat \ {0}
  /\ MAX_HTTP_LOG_POST_SIZE \in Nat /\ LOG_UPLOAD_BUFFER_SIZE \in Nat /\ MaxLogs \in Nat
  /\ HDR < MAX_HTTP_LOG_POST_SIZE /\ MAX_HTTP_LOG_POST_SIZE < LOG_UPLOAD_BUFFER_SIZE
  /\ \A s \in Sizes : HDR + s < MAX_HTTP_LOG_POST_SIZE

VARIABLES
  sg_log_buffer, sg_write_index, upload_only_in_comm_err,
  unhandle_saved_log, log_save_enabled,
  storage,    \* what the user's save, read and delete functions keep
  log_buf,    \* the heap buffer _handle_saved_log posts from
  up,         \* the locals of do_log_upload and _post_log_to_server
  sizes,      \* the size of each record appended so far
  posted,     \* how often the server received each record (up to 2)
  torn,       \* whether the server ever received part of a record
  dropped,    \* records the code discards on purpose
  twice,      \* records that have a reason to be received again
  disturbed,  \* the buffer was emptied under an upload that had read its size
  budget      \* faults, reboots and level messages so far

buffers == <<sg_log_buffer, sg_write_index>>
ghosts  == <<posted, torn, dropped, twice, disturbed>>
logVars == <<buffers, upload_only_in_comm_err, unhandle_saved_log,
            log_save_enabled, storage, log_buf, up, sizes, ghosts, budget>>

Zero   == <<0, 0>>
Header == <<0, 1>>
Records == 1..Len(sizes)

Cells(buf, from, to) == [i \in 1..(to - from) |-> buf[from + i - 1]]
Ids(q) == {q[i][1] : i \in 1..Len(q)} \ {0}

memmove(buf, dst, src, len) ==
  [i \in DOMAIN buf |->
     IF i \in dst..(dst + len - 1) THEN buf[i - dst + src] ELSE buf[i]]

memzero(buf, from, len) ==
  [i \in DOMAIN buf |-> IF i \in from..(from + len - 1) THEN Zero ELSE buf[i]]

EmptyBuffer(size) == [i \in 0..(size - 1) |-> IF i < HDR THEN Header ELSE Zero]

\* The records of the buffer that the server has not received.
Pending == Ids(Cells(sg_log_buffer, HDR, sg_write_index))
             \ {n \in Records : posted[n] > 0}

NoUpload == [pc |-> "idle", saved |-> FALSE, fragments |-> FALSE,
             post_size |-> 0, orig_post_size |-> 0, upload_size |-> 0,
             actual_post_payload |-> 0, upload_log_size |-> 0,
             rc |-> "success"]

LogInit ==
  /\ sg_log_buffer = EmptyBuffer(LOG_UPLOAD_BUFFER_SIZE)
  /\ sg_write_index = HDR
  /\ upload_only_in_comm_err = FALSE
  /\ unhandle_saved_log = TRUE
  /\ log_save_enabled \in BOOLEAN
  /\ storage = <<>>
  /\ log_buf = EmptyBuffer(HDR)
  /\ up = NoUpload
  /\ sizes = <<>>
  /\ posted = [n \in 1..MaxLogs |-> 0]
  /\ torn = FALSE
  /\ dropped = {}
  /\ twice = {}
  /\ disturbed = FALSE
  /\ budget = [faults |-> 0, reboots |-> 0, levels |-> 0]

Fault == /\ budget.faults < MaxFaults
         /\ budget' = [budget EXCEPT !.faults = @ + 1]

\* One of two outcomes of a call that may fail.
Succeeds == UNCHANGED budget

----------------------------------------------------------------------------
\* Writers of the buffer.

\* append_to_upload_buffer.  A record that does not fit, or that meets a
\* locked buffer, is refused and never enters: the caller is told.
append_to_upload_buffer(s) ==
  LET n == Len(sizes) + 1 IN
  /\ n <= MaxLogs
  /\ up.pc # "crashed"
  /\ sg_write_index + s + 1 <= LOG_UPLOAD_BUFFER_SIZE
  /\ sg_log_buffer' = [i \in DOMAIN sg_log_buffer |->
                         IF i \in sg_write_index..(sg_write_index + s - 1)
                         THEN <<n, sg_write_index + s - 1 - i>>
                         ELSE sg_log_buffer[i]]
  /\ sg_write_index' = sg_write_index + s
  /\ sizes' = Append(sizes, s)
  /\ UNCHANGED <<upload_only_in_comm_err, unhandle_saved_log, log_save_enabled,
                 storage, log_buf, up, ghosts, budget>>

\* _reset_log_buffer: the index and the bytes after the header.
_reset_log_buffer ==
  /\ sg_write_index' = HDR
  /\ sg_log_buffer' = memzero(sg_log_buffer, HDR, LOG_UPLOAD_BUFFER_SIZE - HDR)

\* An upload that relies on the size of the buffer it has read.
SizeTaken ==
  \/ up.pc \in {"post", "send"} /\ ~up.saved
  \/ up.pc \in {"adjust", "save", "final"}

\* _log_level_sub_cb: logging disabled, restricted or extended from the cloud.
_log_level_sub_cb(clear, only_in_comm_err) ==
  /\ budget.levels < MaxLevels
  /\ budget' = [budget EXCEPT !.levels = @ + 1]
  /\ up.pc # "crashed"
  /\ only_in_comm_err => clear
  /\ IF clear THEN /\ _reset_log_buffer
                   /\ dropped' = dropped \cup Pending
                   /\ disturbed' = (disturbed \/ SizeTaken)
              ELSE UNCHANGED <<buffers, dropped, disturbed>>
  /\ upload_only_in_comm_err' = only_in_comm_err
  /\ UNCHANGED <<unhandle_saved_log, log_save_enabled, storage, log_buf, up,
                 sizes, posted, torn, twice>>

\* The device restarts: memory is lost, the user's storage is not.
Reboot ==
  /\ budget.reboots < MaxReboots
  /\ budget' = [budget EXCEPT !.reboots = @ + 1]
  /\ dropped' = dropped \cup (Pending \ Ids(storage))
  /\ twice' = twice \cup {n \in Ids(storage) : posted[n] > 0}
  /\ sg_log_buffer' = EmptyBuffer(LOG_UPLOAD_BUFFER_SIZE)
  /\ sg_write_index' = HDR
  /\ upload_only_in_comm_err' = FALSE
  /\ unhandle_saved_log' = TRUE
  /\ log_buf' = EmptyBuffer(HDR)
  /\ up' = NoUpload
  /\ UNCHANGED <<log_save_enabled, storage, sizes, posted, torn, disturbed>>

----------------------------------------------------------------------------
\* do_log_upload

LowBuffer == LOG_UPLOAD_BUFFER_SIZE - sg_write_index < LOG_LOW_BUFFER_THRESHOLD

\* _check_force_upload: not forced and only allowed after an MQTT error.
SkipUpload ==
  /\ up.pc = "idle"
  /\ upload_only_in_comm_err
  /\ LowBuffer
  /\ _reset_log_buffer
  /\ dropped' = dropped \cup Pending
  /\ UNCHANGED <<upload_only_in_comm_err, unhandle_saved_log, log_save_enabled,
                 storage, log_buf, up, sizes, posted, torn, twice, disturbed, budget>>

\* _check_force_upload: forced, buffer low or timer expired.
BeginUpload(force) ==
  /\ up.pc = "idle"
  /\ force \/ ~upload_only_in_comm_err
  /\ up' = [NoUpload EXCEPT !.pc = "saved"]
  /\ UNCHANGED <<buffers, upload_only_in_comm_err, unhandle_saved_log,
                 log_save_enabled, storage, log_buf, sizes, ghosts, budget>>

\* The call of _handle_saved_log where it posts nothing: switched off, nothing
\* saved, or the connection check, the allocation or the read failed.
NoSavedLog ==
  /\ up.pc = "saved"
  /\ IF ~log_save_enabled \/ ~unhandle_saved_log
     THEN Succeeds /\ UNCHANGED unhandle_saved_log
     ELSE \/ storage = <<>> /\ Succeeds /\ unhandle_saved_log' = FALSE
          \/ storage # <<>> /\ Fault /\ UNCHANGED unhandle_saved_log
  /\ up' = [up EXCEPT !.pc = "check"]
  /\ UNCHANGED <<buffers, upload_only_in_comm_err, log_save_enabled, storage,
                 log_buf, sizes, ghosts>>

\* Entry of _post_log_to_server: one shot or fragments.
PostLog(post_size, saved) ==
  [up EXCEPT !.pc = "post", !.saved = saved,
             !.fragments = ~(post_size < MAX_HTTP_LOG_POST_SIZE),
             !.post_size = post_size, !.orig_post_size = post_size,
             !.actual_post_payload = 0]

\* _handle_saved_log reads the whole saved log and posts it.
_handle_saved_log ==
  /\ up.pc = "saved"
  /\ log_save_enabled /\ unhandle_saved_log /\ storage # <<>>
  /\ log_buf' = [i \in 0..(HDR + Len(storage)) |->
                   IF i < HDR THEN Header
                   ELSE IF i = HDR + Len(storage) THEN Zero
                   ELSE storage[i - HDR + 1]]
  /\ up' = PostLog(HDR + Len(storage), TRUE)
  /\ UNCHANGED <<buffers, upload_only_in_comm_err, unhandle_saved_log,
                 log_save_enabled, storage, sizes, ghosts, budget>>

\* "no more log in buffer", read without the lock.
CheckEmpty ==
  /\ up.pc = "check"
  /\ up' = IF sg_write_index = HDR THEN NoUpload ELSE [up EXCEPT !.pc = "snapshot"]
  /\ UNCHANGED <<buffers, upload_only_in_comm_err, unhandle_saved_log,
                 log_save_enabled, storage, log_buf, sizes, ghosts, budget>>

\* upload_log_size, read under the lock.
Snapshot ==
  /\ up.pc = "snapshot"
  /\ up' = [PostLog(sg_write_index, FALSE) EXCEPT !.upload_log_size = sg_write_index]
  /\ UNCHANGED <<buffers, upload_only_in_comm_err, unhandle_saved_log,
                 log_save_enabled, storage, log_buf, sizes, ghosts, budget>>

----------------------------------------------------------------------------
\* _post_log_to_server

PostBuf == IF up.saved THEN log_buf ELSE sg_log_buffer

\* The sizes at which strstr finds the end of a record, up to a zero byte.
RecordEnds(buf) ==
  {i + 1 : i \in {j \in DOMAIN buf : /\ buf[j] # Zero /\ buf[j][2] = 0
                                     /\ \A k \in 0..j : buf[k] # Zero}}

\* Mutant: fragments are cut at the limit, not at a delimiter.
FragmentAnywhere(buf) ==
  LET ends == RecordEnds(buf) IN
  IF ends = {} THEN -1 ELSE Min({Max(ends), MAX_HTTP_LOG_POST_SIZE - 1})

\* The inner loop: the largest prefix of whole records below the HTTP limit.
\* -1: no delimiter where one is expected.  0: not even one record fits.
FragmentSize(buf) ==
  LET ends == RecordEnds(buf)
      fits == {e \in ends : e < MAX_HTTP_LOG_POST_SIZE}
  IN CASE ends = {} -> -1
       [] ends # {} /\ fits = {} -> 0
       [] OTHER -> IF fits = ends /\ buf[Max(fits)] # Zero THEN -1 ELSE Max(fits)

\* The return of _post_log_to_server to its two callers; `again' are the
\* records of an unconfirmed POST.  Without saving, the unsent rest is given up.
AfterPost(rc, again) ==
  LET rest == Ids(Cells(sg_log_buffer, HDR, up.upload_log_size))
      next == CASE up.saved -> "delete"
                [] ~up.saved /\ rc # "success" /\ log_save_enabled -> "adjust"
                [] OTHER -> "final"
  IN /\ up' = [up EXCEPT !.pc = next, !.rc = rc]
     /\ twice' = twice \cup again
     /\ dropped' = IF next = "final" /\ rc # "success"
                   THEN dropped \cup {n \in rest : posted'[n] = 0}
                   ELSE dropped
     /\ UNCHANGED disturbed

\* The end of _handle_saved_log: the saved log is deleted when it was posted or
\* unusable, and kept as a whole when some fragment failed.
DeleteSaved ==
  /\ up.pc = "delete"
  /\ \/ /\ up.rc \in {"success", "inval"}
        /\ Succeeds
        /\ storage' = <<>>
        /\ dropped' = dropped \cup {n \in Ids(storage) : posted[n] = 0}
        /\ UNCHANGED twice
     \/ /\ IF up.rc = "failure" THEN Succeeds ELSE Fault
        /\ twice' = twice \cup {n \in Ids(storage) : posted[n] > 0}
        /\ UNCHANGED <<storage, dropped>>
  /\ unhandle_saved_log' = (up.rc # "success")
  /\ up' = [up EXCEPT !.pc = "check"]
  /\ UNCHANGED <<buffers, upload_only_in_comm_err, log_save_enabled, log_buf,
                 sizes, posted, torn, disturbed>>

\* Choose what to post next.
Locate ==
  /\ up.pc = "post"
  /\ LET size == IF up.fragments THEN FragmentSize(PostBuf) ELSE up.post_size IN
     IF size > 0
     THEN /\ up' = [up EXCEPT !.pc = "send", !.upload_size = size]
          /\ UNCHANGED ghosts
     ELSE /\ UNCHANGED <<posted, torn>>
          /\ AfterPost(IF size = 0 THEN "failure" ELSE "inval", {})
  /\ UNCHANGED <<buffers, upload_only_in_comm_err, unhandle_saved_log,
                 log_save_enabled, storage, log_buf, sizes, budget>>

\* Whether a posted sequence of cells consists of whole records.
Whole(q) ==
  \A i \in 1..Len(q) :
    LET n == q[i][1] left == q[i][2] IN
    /\ q[i] # Zero
    /\ left > 0 => i < Len(q) /\ q[i + 1] = <<n, left - 1>>
    /\ left < sizes[n] - 1 => i > 1 /\ q[i - 1] = <<n, left + 1>>

\* The server receives what the buffer holds at the moment of the POST.
Receive ==
  LET q == Cells(PostBuf, HDR, up.upload_size) IN
  /\ posted' = [n \in DOMAIN posted |->
                  IF n \in Ids(q) THEN Min({2, posted[n] + 1}) ELSE posted[n]]
  /\ torn' = (torn \/ ~Whole(q))

\* Mutant: the rest is moved but the old copy behind it is not cleared.
AdvanceNotCleared(buf) ==
  memmove(buf, HDR, up.upload_size, up.post_size - up.upload_size)

\* The fragment was confirmed: move the rest forward, clear behind it.
Advance(buf) ==
  LET payload == up.upload_size - HDR
      left    == up.post_size - payload
  IN memzero(memmove(buf, HDR, up.upload_size, up.post_size - up.upload_size),
             left, up.orig_post_size - left)

\* _post_one_http_to_server succeeds.
SendOk ==
  /\ up.pc = "send"
  /\ Receive
  /\ LET payload == up.upload_size - HDR
         left    == up.post_size - payload
     IN IF up.fragments
        THEN /\ IF up.saved
                THEN log_buf' = Advance(log_buf) /\ UNCHANGED sg_log_buffer
                ELSE sg_log_buffer' = Advance(sg_log_buffer) /\ UNCHANGED log_buf
             /\ IF left > HDR
                THEN /\ up' = [up EXCEPT !.pc = "post", !.post_size = left,
                                         !.actual_post_payload = @ + payload]
                     /\ UNCHANGED <<dropped, twice, disturbed>>
                ELSE AfterPost("success", {})
        ELSE /\ AfterPost("success", {})
             /\ UNCHANGED <<sg_log_buffer, log_buf>>
  /\ UNCHANGED <<sg_write_index, upload_only_in_comm_err, unhandle_saved_log,
                 log_save_enabled, storage, sizes, budget>>

\* It fails before the server has the fragment, or (received) after it: the
\* response is late, unreadable or refused.
SendFails(received) ==
  /\ up.pc = "send"
  /\ Fault
  /\ IF received
     THEN Receive /\ AfterPost("failure", Ids(Cells(PostBuf, HDR, up.upload_size)))
     ELSE UNCHANGED <<posted, torn>> /\ AfterPost("failure", {})
  /\ UNCHANGED <<buffers, upload_only_in_comm_err, unhandle_saved_log,
                 log_save_enabled, storage, log_buf, sizes>>

----------------------------------------------------------------------------
\* The rest of do_log_upload

\* Mutant: the rest and what was appended is moved, the size is not changed.
AdjustOldSize ==
  /\ up.pc = "adjust"
  /\ LET sent == up.actual_post_payload
         end  == sg_write_index - sent
     IN /\ sg_write_index' = end
        /\ sg_log_buffer' = memzero(
             memmove(sg_log_buffer, up.upload_log_size - sent, up.upload_log_size,
                     sg_write_index - up.upload_log_size),
             end, LOG_UPLOAD_BUFFER_SIZE - end)
  /\ up' = [up EXCEPT !.pc = "save"]
  /\ UNCHANGED <<upload_only_in_comm_err, unhandle_saved_log, log_save_enabled,
                 storage, log_buf, sizes, ghosts, budget>>

\* Close the gap between the unsent rest and the records appended meanwhile.
Adjust ==
  /\ up.pc = "adjust"
  /\ LET size == up.upload_log_size
         sent == up.actual_post_payload
         end  == sg_write_index - sent
     IN IF sent > 0 /\ sg_write_index >= size
        THEN /\ sg_write_index' = end
             /\ sg_log_buffer' = memzero(
                  memmove(sg_log_buffer, size - sent, size, sg_write_index - size),
                  end, LOG_UPLOAD_BUFFER_SIZE - end)
             /\ up' = [up EXCEPT !.pc = "save", !.upload_log_size = end]
        ELSE /\ up' = [up EXCEPT !.pc = IF sent > 0 THEN "crashed" ELSE "save",
                                 !.upload_log_size = sg_write_index]
             /\ UNCHANGED buffers
  /\ UNCHANGED <<upload_only_in_comm_err, unhandle_saved_log, log_save_enabled,
                 storage, log_buf, sizes, ghosts, budget>>

\* _save_log: the saved log is replaced when both do not fit; the user's delete
\* and save functions may fail.
_save_log(deletes, saves) ==
  /\ up.pc = "save"
  /\ LET new  == Cells(sg_log_buffer, HDR, up.upload_log_size)
         full == Len(storage) + Len(new) > MAX_LOG_SAVE_SIZE
         kept == IF full /\ deletes THEN <<>> ELSE storage
     IN /\ full \/ deletes
        /\ storage' = IF saves THEN kept \o new ELSE kept
        /\ dropped' = dropped \cup
             ({n \in Ids(storage \o new) : posted[n] = 0} \ Ids(storage'))
  /\ IF deletes /\ saves THEN Succeeds ELSE Fault
  /\ unhandle_saved_log' = TRUE
  /\ up' = [up EXCEPT !.pc = "final"]
  /\ UNCHANGED <<buffers, upload_only_in_comm_err, log_save_enabled, log_buf,
                 sizes, posted, torn, twice, disturbed>>

\* Mutant: the buffer is reset whatever was appended during the upload.
MoveNothing ==
  /\ up.pc = "final"
  /\ _reset_log_buffer
  /\ up' = NoUpload
  /\ UNCHANGED <<upload_only_in_comm_err, unhandle_saved_log, log_save_enabled,
                 storage, log_buf, sizes, ghosts, budget>>

\* "move the new log during send_log_to_server".  The length of the move is an
\* unsigned difference: it is meaningless when the buffer shrank meanwhile.
MoveNewLog ==
  /\ up.pc = "final"
  /\ LET size == up.upload_log_size
         end  == sg_write_index - size + HDR
     IN IF size = sg_write_index
        THEN _reset_log_buffer /\ up' = NoUpload
        ELSE IF size < sg_write_index
        THEN /\ sg_log_buffer' = memzero(
                  memmove(sg_log_buffer, HDR, size, sg_write_index - size),
                  end, LOG_UPLOAD_BUFFER_SIZE - end)
             /\ sg_write_index' = end
             /\ up' = NoUpload
        ELSE up' = [up EXCEPT !.pc = "crashed"] /\ UNCHANGED buffers
  /\ UNCHANGED <<upload_only_in_comm_err, unhandle_saved_log, log_save_enabled,
                 storage, log_buf, sizes, ghosts, budget>>

----------------------------------------------------------------------------
LogNext ==
  \/ \E s \in Sizes : append_to_upload_buffer(s)
  \/ \E clear, err \in BOOLEAN : _log_level_sub_cb(clear, err)
  \/ Reboot
  \/ SkipUpload
  \/ \E force \in BOOLEAN : BeginUpload(force)
  \/ NoSavedLog
  \/ _handle_saved_log
  \/ CheckEmpty
  \/ Snapshot
  \/ DeleteSaved
  \/ Locate
  \/ SendOk
  \/ \E received \in BOOLEAN : SendFails(received)
  \/ Adjust
  \/ \E deletes, saves \in BOOLEAN : _save_log(deletes, saves)
  \/ MoveNewLog

LogSpec == LogInit /\ [][LogNext]_logVars

----------------------------------------------------------------------------
\* Each property holds until a message on the log topic empties the buffer
\* under an upload that has read its size. After that none of them does: the
\* upload may clear or move over records appended since, post parts of them or
\* zeros, post them again, and give memmove a wrapped length.

\* A record that was accepted is in the buffer, in the storage or at the
\* server until the code discards it on purpose: level change, saving switched
\* off or failed, saved log overwritten, restart.  Moving the buffer after a
\* full, a partial or a failed upload, with records appended meanwhile, loses
\* nothing (log_upload.c:664-690).
NothingLost ==
  disturbed \/ \A n \in Records :
    \/ posted[n] > 0
    \/ n \in Ids(Cells(sg_log_buffer, HDR, sg_write_index))
    \/ n \in Ids(storage)
    \/ n \in dropped

\* The server receives a record twice only for a reason outside the buffer
\* arithmetic: an answer that was lost, a saved log that was posted in part.
NoDuplicate == disturbed \/ \A n \in Records : posted[n] > 1 => n \in twice

\* Every POST carries whole records only (the fragmentation at
\* log_upload.c:290-306 and every move keep record boundaries).
WholeRecords == torn => disturbed

\* The moves are never given a wrapped length (log_upload.c:669, 686): what is
\* in the buffer never shrinks below what an upload in progress took of it.
MovesInRange == up.pc = "crashed" => disturbed
============================================================================
