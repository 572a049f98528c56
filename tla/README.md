# HPlayerPro: a TLA+ verification of the playback core

HPlayerPro is a Qt media player.  Its own logic, about five thousand lines under `src/src/{video,ui,util}`
plus the thread base class in `src/src/hv/base/hthread.h`, is a pipeline of four threads per player around
FFmpeg and SDL.  This directory holds TLA+ modules of that pipeline, TLC configurations that check them on
small instances, and theorems about them that TLAPS checks for every value of the constants.

To check: `tlc -config X.cfg M` for a run listed in `PROJECT.json`, `tlapm M.tla` for a `*_proofs` module.

## 1. Inventory

| component | state it keeps | operations | interacts with |
|---|---|---|---|
| **PacketQueue** (`hffplayer.h`, `hffplayer.cpp` 1066–1186) | list of packets, `nb_packets`, `size`, `duration`, `abort_request`, a mutex, a condition variable | `put`, `get`, `flush`, `abort`, `start` (never called) | filled by `readTask`, emptied by `doTask` or `audioTask`, flushed by `seek` and `close` |
| **HThread** (`hthread.h`) | atomic `status` (STOP, RUNNING, PAUSE), `std::thread`, sleep policy | `start`, `stop`, `pause`, `resume`, `setSleepPolicy`; `run` in the worker | base class of HFFPlayer; called by the GUI thread, and by the worker itself from `open` |
| **HFFPlayer, life cycle** (`hffplayer.cpp` 119–407, 1044–1064, and the loops of 1467–1721) | `quit`, format and codec contexts, two more threads and their `running` flags | `start`, `stop`, `open`, `close`, `doPrepare`, `doFinish`, destructor | GUI thread, worker, reading thread, audio thread; posts events to HVideoWidget |
| **HFFPlayer, pipeline** (`readTask`, `doTask`, `audioTask`, `processVideoPacket`, `processAudioPacket`, `seek`) | file position, `is_seeking`, prebuffer flags, what each codec holds, `format_mutex`, `decoder_mutex` | read, watermark, put, get, decode, push, seek | both packet queues, the frame cache, the audio frame queue |
| **HFrameBuf / HRingBuf** (`hframe.cpp`, `hbuf.h`) | ring of bytes, deque of frames that point into it | `push`, `pop`, `clear` under one mutex | worker pushes, GUI timer pops, `seek` clears |
| **AV synchronisation** (`hffplayer.cpp` 1315–1371, 1723–1815) | two clocks, `frame_timer`, `first_frame`, `frame_last_delay` | `set_clock`, `get_master_clock`, `compute_target_delay`, the sleep of the video thread | worker, audio callback, `seek` |
| **SDL audio output** (`hffplayer.cpp` 1377–1462, 1818–2007) | `audio_.frame_queue`, `play_buf`, its size, index and capacity | `sdl_audio_callback`, `audio_decode_frame`, `audio_open`, `audio_close` | audio thread pushes, SDL's thread pops, `seek` resets from the GUI thread |
| **HVideoWidget** (`HVideoWidget.cpp`) | status, player pointer, timers, retry count, queued events | `open`, `start`, `stop`, `pause`, `resume`, `restart`, `retry`, `onOpenSucceed/Failed`, `onPlayerEOF/Error` | one player; events posted from the player's threads |
| **HTable / HMultiView** (`htable.cpp`, `HMultiView.cpp`) | rows × columns, cells with their rectangles; the widgets, their numbers and geometries, the layout saved last | `setLayout`, `mergeCells`, `exchangeCells`, `stretch`, `resizeEvent`, `play` | HVideoWidget |
| Renderers, MainWindow, dialogs, tool bars, configuration, HVideoCapture | drawing and I/O | – | not modelled, see section 7 |

### How they interact

The GUI thread calls `start`; the worker (HThread) runs `open`, which creates the reading thread and, if
there is audio, the audio thread.  The reading thread puts packets into two queues; the worker decodes the
video queue and pushes frames into HFrameBuf, the audio thread decodes the audio queue into
`audio_.frame_queue`.  The GUI's timer pops frames, SDL's thread pops audio.  `seek` runs in the GUI thread
through all of this.  `stop` sets `quit`, then STOP, and joins the worker, which in `close` clears the running
flags, aborts the queues, joins the two other threads and only then frees what they use.

### What is hard

* *Interleavings.*  Flags are set outside the mutex under which they are tested: `quit` and `abort_request` against
  `packet_queue_get`'s wait, and between the test and the push or pop behind it; `is_seeking` against five threads;
  `status`, read and written back by four methods while the worker writes it too.
* *Ownership.*  A packet is passed by pointer from hand to queue to hand; a refused put has two owners.
* *Life time.*  Contexts are created and freed while two other threads may use them.
* *Order.*  A seek flushes frames, queues and codecs one by one, with different locks.
* *Limits.*  Two queues, one reader, one test for both.
* *Progress.*  `stop` joins three threads wherever they wait; `seek` needs two locks that others take in loops.
* *The next session.*  What `close` leaves behind is what `open` starts from; the ring of frames keeps even
  the size it had in the last one.
* *Unlocked words.*  SDL's thread and `seek` read and write the index and the size of the play buffer at once.
* *Feedback.*  A frame's delay is corrected by the difference of two clocks, one of which the delay sets.

`PROJECT.json` lists each of these at its line under "hazards", with the properties that cover it.

### What makes each component correct

* PacketQueue: exact counters, first-in first-out, no packet lost, used after its free, or freed twice; a
  stop ends every wait, and what was begun before it and nothing else.
* HThread: a STOP is final for a session; `start` is possible whenever the worker is gone; `stop` returns.
* Life cycle: no context is used when it is not open; `stop` leaves nothing behind; CLOSED is the last event.
* Pipeline: bounded queues; no packet overtakes another; nothing is lost between seeks, and little of the old
  position survives one; a seek ends; what was read goes to its codec; readers and decoders do not wait for each other.
* HFrameBuf: frames lie in the ring and do not overlap; what is popped is what was pushed; `alloc` does not fail.
* Audio: what is decoded is heard once and in order; little of the old position is heard after a seek; the
  callback stays inside the play buffer and returns.
* AV synchronisation: video and audio meet after a trouble that leaves them less than 10 s apart, and frames are shown
  at their times.
* HVideoWidget: an event of one session never acts on the next; a stopped widget stays stopped.
* HTable and HMultiView: the cells cover the grid whatever is merged; the screen shows the table; a second
  double click undoes the first; no widget that plays disappears by a merge next to it.

## 2. The modules

    PacketQueueOps ──┬── PacketQueue ── MCPacketQueue       PacketQueue ==implements==> PacketChannel
                     └── Pipeline ───── MCPipeline
    HThread ───────────── HFFPlayer
    FrameBuf                                                FrameBuf ==implements==> FrameCache
    AudioOut
    AVSync ────────────── MCAVSync
    VideoWidget
    Table ─────────────── MultiView ─── MCMultiView
    PacketQueue_proofs, HFFPlayer_proofs, Pipeline_proofs, FrameBuf_proofs, AudioOut_proofs, AVSync_proofs,
    VideoWidget_proofs, MultiView_proofs (theorems)

`Pipeline` stands in the middle: its queues are those of `PacketQueueOps`, its frame cache is what `FrameCache`
promises, its queue of audio frames is emptied by `AudioOut`, the wait of its video thread is `AVSync`'s sleep,
and its `seek` is the one `HFFPlayer` lets the GUI call.

| module | models | how it corresponds to the code |
|---|---|---|
| `PacketQueueOps` | what put, get, flush and abort do to the struct while they hold its mutex | one operator per critical section; `queue.size`, `nb_packets` and `duration` are updated as the code updates them and never recomputed |
| `PacketChannel` | what a packet queue promises | abstract: send, receive, find it empty, drop everything, close.  One user at a time comes, does one of these and leaves; after the close nobody comes, but whoever is there may still end what it does |
| `PacketQueue` | one queue, its mutex and condition variable, the reading and the decoding thread, controllers that flush, abort and set `quit` | `packet_queue_put` and `packet_queue_get` are split where `quit` and `abort_request`, which are stored without the mutex, can change under them: lock, test, push or pop, wait, wake-up.  flush and abort and their notifications are two steps each.  `frees` counts `av_packet_free` on each packet |
| `HThread` | `hthread.h`: the methods and the worker's function | every read-then-write of `status` is two actions with the value read in `seen`; the worker's place is `wpc`, the caller's `gpc` |
| `HFFPlayer` | the life cycle | extends HThread.  `open` and `close` are one action per call that succeeds, fails or waits; the reading and audio threads are "between two uses of a context" or using one.  `seek` is a call of the GUI thread that needs the media open from its test of `fmt_ctx` to its return |
| `Pipeline` | a player that is open | `rpc`, `dpc[s]`, `spc` are the places of `readTask`, the two decoding threads and `seek`; the two mutexes are the places where they are held.  `out[s]` is the frame cache (which squeezes its oldest frame out) or the audio frame queue.  `epoch` and `fed` are history |
| `VideoWidget` | one widget, its player's session, the event queue between them, the retry timers and the message boxes | the methods `Start`, `Stop`, `Restart`, `Retry` are operators on the next state, called by the handlers as in the code; one action per click, event and timer.  A message box runs its own event loop, so `boxes` counts the `onOpenFailed` that are not finished, and their `Stop` is an action of its own.  The dialog of `open` likewise.  A handler that uses a deleted player sets `crashed` |
| `FrameCache` | what the frame cache promises, and what `Pipeline` takes it for | abstract: put, take, clear; the oldest is squeezed out |
| `FrameBuf` | `HFrameBuf` and `HRingBuf` | `Base`, `Alloc` and `Free` are `alloc` and `free` with their comparisons; `memory` holds the picture each byte belongs to, so that an overwritten frame pops as "torn".  Sessions may differ in the length of their frames, as `close` neither clears nor resizes |
| `AudioOut` | processAudioPacket's push, `sdl_audio_callback` and `audio_decode_frame`, `seek`, `audio_open` and `audio_close` | the callback is one action per access to `play_buf_size` or `play_buf_index`, with the value it computes with in `reg`.  `play_buf` has the capacity it was allocated with |
| `AVSync` | `processVideoPacket` from the decoded frame to `push_frame`, `compute_target_delay`, the clocks | one action per frame.  `lead` is `frame_timer` less the time, `diff` the video clock less the audio clock: differences, so that time has no end.  A clock that was reset reads as the time (`pts_drift` is 0), which `ClockDiffs` gives as any of `Readings` |
| `Table` | `HTable` | operators on a record of rows, columns and cells; `Sweep` is the loop of `merge`, whose rectangle grows on the way |
| `MultiView` | `HMultiView` | one action per event of the mouse, the menu, the window and the widgets; `area` has the geometry of the widgets that are visible |
| `MC*` | constants for TLC | files of four and of eight packets, the small layouts, clock differences |

The mutants in the modules (definitions whose comment says "Mutant of") are small bugs of the kind the code
could have; each property of a passing run is broken by one of them, so that none holds by the shape of
the model.  They are used by no specification.

### Abstractions

A packet is a number, a size and a duration.  Except in `VideoWidget` and `AVSync`, time has no value: sleeps and
waits end when they end, and a sleep that only delays a loop is no step.  `av_read_frame` yields the next packet,
the end, or nothing; libraries return, with any of their outcomes.  A codec returns one frame per packet after a
delay (`CodecDelay`).  Statistics and log state are left out, among them `paused_by_queue` and with it the low
watermark: `readTask` sets and clears it, but only log lines depend on it, so the hysteresis that the comment at
`hffplayer.cpp:1510` describes does not exist in the code or in the model.  `eof` and `error` of the player are
written and never read by it.

`AVSync` counts in units of 10 ms, in which all thresholds of the code are whole; rounding of floating-point
values is not modelled.  What goes wrong around it is bounded by `MaxTroubles`: a frame that comes late, an odd
time stamp, an underrun, a seek.  Between troubles the audio clock runs with the time, as it does while the
callback has frames.

`AudioOut` orders the accesses as the source does, each on its own: the project builds Debug without optimisation
(`hplayer.vcxproj:108`), and what an optimising compiler may keep in a register is the same choice of values.
The callback's test of index against size is one step, for which its comment gives the reason.  Epochs count
seeks and sessions.

`MultiView` measures in slots.  `updateUI` puts a widget at the slot of its cell's number, and the pixels lost by
the integer division are the same for every widget.

`VideoWidget` counts time from now: `timespan` is the time since the last retry, negative when `retry` has
scheduled one ahead, and each single shot has the time it has left.  So no clock grows.  The geometry, the
progress bar, the aspect ratio and the speed of the widget are left out, and so is `start` without a media,
which only shows a message.  Its player is reduced to what it posts: OPENED or OPEN_FAILED once for each
`start`, EOF and ERROR any number of times while the session lasts, and nothing after `stop` has joined its
threads, which is `ClosedIsLast` of `HFFPlayer`.

## 3. What the runs check

| run | instance | what it shows |
|---|---|---|
| `packet_queue` | 4 packets, 2 controllers | `QueueInv` (types, and counters that are exactly those of the list), `LiveWhereHeld` (no packet lost, none used after its free), `FreedTwiceOnlyRefused` (the second free of a packet is that of a refused put, and it is nobody else's packet), `FileOrder`, `StopEndsGet` (a decoder inside `get` leaves it after quit or abort, although the notification may be lost: the timed wait is what saves it), and the refinement `ImplementsChannel` |
| `player` | 2 sessions | `OpenWhenUsed`, `StopLeavesNothing`, `StopSticks`, `StopOutsideRun`, `ClosedIsLast`, `SeekFindsItOpen` (a seek in a running or paused player has an open media until it returns), and `StopEndsPlayback`: a stop that finds the worker running or paused returns.  `open` may fail at each of its steps, behind the start of the reader too |
| `player_stop_while_opening` | 1 session | *violation*: a stop during `open` is overwritten by RUNNING and never returns |
| `player_second_session` | 2 sessions | *violation*: after a restart both queues are still aborted |
| `pipeline` | 8 packets, 1 seek | `OneQueueBounded`, `NothingOvertakes`, `NothingLost`, `FewStale` (at most three packets of the old position per stream survive a seek; two are not enough), `SeekReturns`, `EndReachesCodecs` (what was read goes to its codec after the end of the file, but for a stream with too few packets to prebuffer), `ReadingGoesOn` (two full queues let `readTask` go on, but for packets that fill them before the prebuffer is there) |
| `pipeline_each_queue` | same | *violation*: the queue of the slower decoder passes the high mark while the other is below it |
| `frame_buf` | cache of 3, lengths 1 to 3 | `RingInv` (the bytes counted are those of the frames and not of the gap; the frames lie in order from head to tail in one turn of the ring, each where the one before it ends, or at 0 when it does not fit before the end), `FailsOnlyGrown` (`alloc` fails only after a frame that was longer than one before it), and the refinement `ImplementsCache`: no frame overwrites another, which holds for changing lengths as well |
| `audio_out` | frames of 2 and 3 bytes, 3 epochs of 2 frames | `HeardOnceInOrder`, `FewOldFrames` (one frame of the old position can be left in the queue after a seek), `ClockOfTheSound` (the clock belongs to the frame that is heard, whichever of callback and `flushDecoders` wrote last), `CallbackReturns`, and `CrashesExplained` in `BufferInv`: there are exactly two ways to leave the play buffer |
| `audio_out_seek` | frames of 3 bytes, 1 seek | *violation*: the first of them, a seek in the middle of the callback |
| `av_sync` | 12.5 frames a second, 2 troubles | `MeetsAudio`, `BackOnSchedule`, `RunsAheadOnlyByLongDelay`: after stalls, odd time stamps, underruns and seeks the video is back with the audio and on its schedule, unless they stay 10 s or more apart, either way, or a delay is more than 100 ms.  Stamps jump by 12 s both ways, and the clocks may start 12 s apart either way |
| `video_widget` | a file and a network stream, loop playback, interval 2, limit 4 | `WidgetInv` (types; status, player and frame timer agree in every order of events and nested message boxes), `RestartsApart` (restarts that are scheduled together keep the interval), `RetryGoesOn` (a session that failed or that `retry` stopped is started again or the widget is stopped), `ClosedStaysClosed` (nothing starts a widget that was closed) |
| `multi_view` | 1x1, 1x2, 2x2 of 4 widgets | `TableInv` (the cells cover the table, each in the grid with its number at its top left), `ShowsTheTable` (the screen shows the table, or one widget alone and then a second double click brings back what was shown), `MergeKeepsPlaying` |

The violations are findings in `PROJECT.json`, each with the comment or document line it contradicts.

### Behaviours to know of

Met while modelling; the models have them, and the properties above are stated so that they leave room for them
by name and for nothing else.

* *A refused packet* (`hffplayer.cpp:1072`, `1587`).  `packet_queue_put` frees the packet it refuses, and `readTask`
  frees it again, as the pointer is its own copy.  `FreedTwiceOnlyRefused` says that this is the only double free and
  that nobody else has the packet then.
* *After the close* (`hffplayer.cpp:1169`, `hffplayer.h:72`).  `abort_request` and `quit` are stored without the
  mutex, so a put or get that has tested them goes on and pushes or pops one packet into or out of a queue that is
  closed. `ImplementsChannel` allows the one that is in its critical section this operation.
* *No audio device* (`hffplayer.cpp:300`, `328`).  `open` goes on without audio ("audio is optional, continue", says the
  comment), starts the reading thread, and then returns `audio_init`'s error: the deferred cleanup frees the format
  context under the reader, `doPrepare` fails, and since no `close` runs nobody joins the reader.  It may read from the
  freed context, which may end the process.  If not, it goes on until it sees `quit`; the next `open` overwrites the
  only pointer to it, and then it reads the next session's media beside that session's own reader, clears
  `read_thread_running` for both when it leaves, and nobody can join it any more: it may even run on in a player that
  was deleted.  `HFFPlayer` has all of this; its history `leftBehind` is the exception, by name, in `OpenWhenUsed`,
  `StopLeavesNothing` and `ClosedIsLast`.  What they say of every other thread holds beside such a reader, and
  `StopEndsPlayback` holds of it as well: the flag that it clears ends no session's `stop`.
* *`set_speed` right after `start`* (`hthread.h:126`, `HMultiView.cpp:252`).  `setSleepPolicy` writes the status it
  read: a STOP that it read before the worker's RUNNING ends the session after the next task.
* *Pause and speed do not reach the decoder* (`hffplayer.cpp:1624`).  `doTask` loops until `quit`, so `run`'s test for
  PAUSE and its sleep are not reached while a session lasts.
* *Watermark* (`hffplayer.cpp:1519`).  Reading pauses when both queues are full; the comment in 1511 and two documents
  say either, and promise at most 15 MB.  Only one queue is bounded, which is `OneQueueBounded`; that each is,
  `EachQueueBounded`, is violated.
* *Short files and the ends of seeks* (`hffplayer.cpp:1628`, `1689`).  A stream that has fewer than ten packets when the
  file ends, or when a seek near its end comes before the first ten, is not prebuffered and none of it is decoded: the
  exception `TooFew` of `EndReachesCodecs`.
* *Large packets* (`hffplayer.cpp:1513`, `1628`).  If the queues hold 15 MB each (or the only one does, when there is
  no audio) in fewer than ten packets, which uncompressed video has, `readTask` waits for the decoders and they for
  `readTask`, for ever.  It is the exception of `ReadingGoesOn`.
* *The last frames* (`hffplayer.cpp:1564`).  At the end of the file no codec is drained: the frames of the packets
  that it still holds do not come out, so `EndReachesCodecs` speaks of what goes in.  And since EOF is posted when the
  file was read, not when it was shown, the widget (`HVideoWidget.cpp:435`) stops or restarts a player whose queues
  are full.
* *Late events* (`HVideoWidget.cpp:401`, `422`).  An event posted before `stop` is handled after it: OPENED and
  OPEN_FAILED dereference the player that is gone (`crashed`), EOF and a scheduled restart start the widget that
  the user stopped.  `ClosedStaysClosed` shows that a widget that was closed is spared.
* *Seek while opening* (`hffplayer.cpp:851`).  `fmt_ctx` is tested, but has its value before the media is open.
* *Larger frames in the next session* (`hframe.cpp:35`, `41`).  The ring keeps the size of the first session's
  frames; `alloc` returns NULL for a larger one and `copy` writes to it.  `FailsOnlyGrown` says that nothing else
  makes it fail.
* *The play buffer* (`hffplayer.cpp:1903`, `1847`).  It is replaced only by a frame of twice the codec's buffer; a
  frame between is copied past its end, the second way in `CrashesExplained`.  At each underrun its pointer is
  dropped without being freed.
* *Ahead by a second* (`hffplayer.cpp:1360`).  Delays of more than 100 ms are prolonged by the whole difference; a
  `frame_timer` that is a second or more ahead is not waited for, then or later, and frames are shown as they
  come.  `LongDelay` is the exception for it.
* *Ten seconds apart* (`hffplayer.cpp:1795`).  Such a difference is never corrected, whichever is ahead; the
  exceptions `diff >= NoSync` and `diff <= -NoSync` of `MeetsAudio` are the two sides.  A time stamp that jumps by 10
  s, forward or back, leaves them so, and so does a first difference of that size.  A stall of 11 s alone does not:
  `frame_timer` is as far behind as the video, and the frames that follow are not slept for.  But a schedule that is
  behind can also carry the video over the limit, as when an underrun leaves it 9.94 s ahead and frames that were late
  are made up for.
* *Clocks after a seek* (`hffplayer.cpp:422`).  A reset clock reads as the time since the machine's start; until
  both are set again the difference means nothing.  `frame_timer` is not reset.
* *Default of `av_sync_type`* (`hffplayer.cpp:151`).  The comment says audio, the code says video; `AVSync` has both.
* *Merging* (`htable.cpp:57`).  On three by three slots and more, `merge(7, 8)` and then `merge(2, 9)` grows the
  rectangle after it has passed cell 4, which stays under it.  So the cells need not be apart; that they cover the
  table all the same is the theorem `TableAlwaysCovered`.
* *Widgets that play on unseen* (`HMultiView.cpp:55`, `htable.cpp:65`).  `mergeCells` searches the numbers from `lt`
  to `rb` for a playing widget, not the cells of the rectangle: on two by two, with the right column merged, 1 and
  2 cover 3, which is not looked at.  And the widget found takes the number `lt`, while the merged cell takes that
  of its top left slot: with the bottom row merged, 2 and 3 make cell 1.  `MergeKeepsPlaying` is stated for the
  numbers searched, for merges that keep the number, and for widgets outside of the rectangle.
* *A short drag* (`HMultiView.cpp:160`).  `action` is not initialised and not reset: a click that is not a drag does
  what the last drag did.

### Bounds, and why they are enough

* `MaxRead = 4` packets in `packet_queue`: two in the queue, one in the reader's hand and one in the
  decoder's, with a zero size, an unknown and a negative duration among them.  Controllers may flush and abort
  any number of times.
* `MaxSessions = 2`: the second session starts from what the first left behind, a reader whose open failed among it.
  With three sessions, two such readers and a third one, TLC finds no error either (660 thousand states).
* `FileLen = 8`: the watermark (`MaxQueue = 1`, `MaxBytes = 2` instead of 100 and 15 MB) is passed with two packets
  or with a large one; four video packets let a seek find one in the codec, one in the
  decoder's hand, one in the queue and one in the reader's hand; one packet belongs to a third stream.  The seek goes
  to the sixth packet, forwards or back.  Instances with two seeks, with more key frames, and files of four and five
  packets were also explored without an error; the checked one keeps to one seek for time.
* `MinPrebuffer = 2` (10 in the code), less than the packets of either stream, so that the file is prebuffered, and
  more than what is left of the audio after a seek, so that the short rest and the standstill occur.
* `MaxPending = 4` events, single shots and message boxes together in `video_widget`: two late events, a restart
  already scheduled and a message box meet.  `RetryMax = 4` is also the number of retries that can be pending
  at once, `RetryInterval = 2` lets a retry come in the middle of an interval.  The theorems need none of them.
* `CacheNum = 3` frames of lengths 1 to 3 in `frame_buf`: a ring with a frame at each end and one between, gaps at
  the end of every size, and frames that fit twice, once and not at all.
* `audio_out`: a call of 3 bytes takes one frame, a part of one, or parts of two; three epochs are two seeks, a seek
  and a restart, or two restarts; two frames in each tell the next from the first.  Silence is as long as a call;
  in `audio_out_seek` it is shorter, and the call longer than a frame.
* `av_sync`: one gap (80 ms) and one cost (20 ms) usually; two troubles are enough for one to come before the last is
  over.  They are shorter and longer than each threshold (4, 10, 100 and 1000 units), the jumps of the stamps and the
  first differences on both sides of it.  25 frames a second with two costs were also explored, with one trouble.
  `MaxLead` is reached only after a long delay: nothing else bounds `lead` then.
* The layouts of `multi_view` are those of at most four widgets.  2x2 has every shape of merged cell but a cell
  between two others.  Larger ones add the overlap described above; for them there are the theorems, and a million
  and a half random merges on grids up to 6x6 were tried with the invariants of their proofs.

### Fairness

`packet_queue`: weak fairness of the decoder, and of a reader that is inside of the critical section, where it does
not wait.  The code's wait is timed (100 ms), so it ends without help from the reader's loop, the controllers or a
notification; dropping the time-out breaks `StopEndsGet`.

`player`: weak fairness of the worker, of `close`, of the reading and the audio thread, and of a GUI method
already called.  Operating-system threads are scheduled and library calls are bounded by the interrupt
callback.  The user is under no obligation.

`pipeline`: weak fairness of each thread as a whole, none of a particular mutex: `std::mutex` gives no
guarantee about which waiter takes it.  `SeekReturns` holds nevertheless because `is_seeking` turns the other
threads away.  Nothing is assumed of the frames' and the audio's consumers, because neither cache blocks.

`audio_out`: SDL's thread is scheduled while it is in the callback; not that it is called again, and nothing of the
audio thread or the user.

`av_sync`: packets keep coming to the video thread.  Nothing is assumed of the audio: its thread needs
`decoder_mutex`, which the video thread holds while it sleeps (`hffplayer.cpp:1363`) and takes again soon after, so
nothing in the code promises that the audio is heard.  `BackOnSchedule` holds without it; `MeetsAudio` has it as a
premise, that the audio clock is set in the end and remains so.  Troubles are bounded and need not happen.

`frame_buf` and `multi_view` have no liveness properties.

`video_widget`: Qt delivers posted events and due timers, time passes, and a message box is closed some day
(`RetryGoesOn` would otherwise end at the box).  Neither the user's other clicks nor the player's events are
assumed.

## 4. What is proved

Every theorem holds for all values of the constants under the named assumption of the module.

* `PacketQueue_proofs` (any number of packets and controllers).  `LiveWhereHeldAlways`;
  `FileOrderAlways`; `FreedTwiceOnlyRefusedAlways`; `QueueImplementsChannel`.  Neither `LiveWhereHeld` nor `FileOrder`
  is inductive alone: `FileOrder` must place the packet in the reader's hand after the queue and the one in the
  decoder's hand before it, and a flush frees the right packets only if the queue holds each packet once, which
  `FileOrder` gives.  The inductive invariant `IInv` is their conjunction with the types, `nb_packets = Len(packets)`,
  who holds the mutex at which place (`MutexHeld`), and that a refused packet is the last one read (`RefusedLast`),
  from which the double free is nobody else's packet. Lemmas on the operators of `PacketQueueOps` say what each
  returns; the refinement is by cases on `Next`: every step maps to a step of the channel or to a stutter.
* `PacketQueue_proofs`, continued: `CountersAlwaysExact` (`QueueInv`, types and counters).  `size` and `duration` are compared with sums
  over the list.  That a sum grows by the packet appended and shrinks by the packet taken is a fact about a recursive
  function for every length; it is proved first-order, by the least length for which it fails (`Least`, from
  `WFMin`).
* `HFFPlayer_proofs` (any number of sessions).  `TypeCorrect`; `StopIsFinal` (`StopSticks`);
  `StartIsPossible` (`StopOutsideRun`); `SeekIsInOpenMedia` (`SeekFindsItOpen`).  `PlayerIsThread` shows that every
  step of the player is a step of `HThread` or leaves it alone, and the invariant `StatusInv` relates the status, the
  worker's place and the values read by pending methods: it is proved about `HThread`'s actions only.
  `SeekFindsItOpen` needs more: that the status is not STOP only while the worker is in `run` (`StatusInv`), that the
  media is open there (`WorkerInv`), that only the worker in `doFinish` or the destructor closes it (`CloserInv`), and
  that nobody sets STOP while the GUI thread is in `seek` (`SeekInv`).
  `UsedOnlyWhenOpen` (`OpenWhenUsed`), `StoppedMeansEmpty` (`StopLeavesNothing`) and `NothingAfterClosed`
  (`ClosedIsLast`) have no hypothesis on what `open` meets; the reader of an `open` that failed is the exception
  that each of them names.  `OpenInv` says which contexts there are at each place of `open`, `LiveInv` that the audio
  thread outlives neither its decoder nor the worker, `OwnReader` that every other reader is that of this session,
  with `read_thread` pointing to it and the media open, and `PointerInv` where the pointers went: to a reader that nobody
  joined it still points, or a later session's reader is there or was joined in its place.
* `Pipeline_proofs` (every file, watermark, cache and number of seeks).  `TypeCorrect`; `WatermarkBoundsOne`
  (`OneQueueBounded`).  The bound is not inductive: `readTask` looks at one queue, then at the other, then waits for
  a lock, and reads.  `WatermarkInv` says what it still knows at each of these places: the queue it found not full
  has not grown since, because only it adds packets.
  `NothingOvertakesAlways` (`NothingOvertakes`).  `LineInv`: cache, codec, decoder's hand, queue and reader's hand are
  one line of packets, ordered by seek and position, and all of it is before the file position (`BehindLine`).  It
  relies on `HandsInv`, which places each hand: nobody holds a packet where the code has given it away, and `seek`
  moves the position only under the reader's lock.
  `FewStaleAlways` (`FewStale`).  `StaleInv` follows `seek` place by place: once it has cleared the cache, then the queue,
  at most a packet is in what it has passed, because each thread has one in hand and then sees `is_seeking`.
  `NothingLostAlways` (`NothingLost`).  `KeptInv`: outside of a seek, a packet of the epoch is still in the line or was
  given to its codec.
* `FrameBuf_proofs` (every size of the cache and every set of lengths).  `RingAlways` (`RingInv`): `FitsInv` is the
  layout, each frame placed behind the one before it or, where it does not fit, at the beginning, at most once around;
  from it the distance of each frame from the head, around the ring, is at least where the one before it ends.
  `Counts`, that `size` is the number of bytes under the frames, follows the cardinality through each push and pop.
  `CacheImplemented` (`ImplementsCache`): each step maps to a step of the cache or a stutter, because what `alloc`
  returns meets no byte of a frame that is kept. `NeverFailsUngrown` (`FailsOnlyGrown`): that `alloc` finds room is
  not a matter of the bytes left, as the gaps at the end can be any; `LapInv` counts the frames pushed and popped in
  this turn around the ring and bounds the head from below and the tail from above by these numbers times a length.
* `AudioOut_proofs` (frames of any sizes, any number of bytes a call, any number of frames, seeks and sessions).
  `CallbackStaysInside` (`BufferInv`); `FewOldFramesAlways` (`FewOldFrames`); `ClockIsOfTheSound`
  (`ClockOfTheSound`); `HeardOnceAndInOrder` (`HeardOnceInOrder`).  For the first, `FrameInv` says what the callback
  knows of index and size at each of its places whatever `seek` stores in between - only `len1` can become negative -,
  and `CallInv` that it does not in a call that no `seek` disturbed.  For the next two, `OldInv` says that only the
  first frame can be old, because `seek` clears the queue and the audio thread has at most one frame in hand, which it
  pushes before it decodes another; `NewInv` that nothing new is decoded before `flushDecoders`; and `ClockInv` that
  only new frames set the clock once a new one is in the play buffer.  `IndInv` is their conjunction; each part has one
  step lemma with a case for each action.  For the last, `SortInv` orders the epochs from what is heard to what is
  decoded, `NumberInv` says that the frames of the epoch are numbered from there without a gap, and `PlaceInv` how far
  the frame in the play buffer was heard at each place of the callback.
* `AVSync_proofs` (every set of gaps, costs and clock readings).  `AheadOnlyByLongDelay` (`RunsAheadOnlyByLongDelay`):
  `compute_target_delay` at most doubles a delay up to 100 ms (`TargetBounded`), and a delay below a second is slept
  off, or the schedule is set to the time.
* `VideoWidget_proofs` (every interval and limit, any number of events, single shots and boxes).  `StatusAlwaysFits`
  (`WidgetInv`, whose types include that `retry_cnt` keeps to the limit); `RestartsAlwaysApart`
  (`RestartsApart`); `ClosedStays` (`ClosedStaysClosed`).  The methods are called from many handlers, so three lemmas
  first say what any step can do to the player's variables (`PlayerStep`), to the retries' (`RetriesStep`) and to the
  rest (`GuiStep`); the invariants are then proved about these.  `RestartsApart` is inductive because it also bounds
  every scheduled restart by `last_retry_time`, from which `retry` counts the next one.
* `MultiView_proofs` (every set of layouts, every sequence of merges).  `TableAlwaysCovered` (`TableInv`),
  `AlwaysShowsTheTable` (`ShowsTheTable`), `PlayingSurvivesMerge` (`MergeKeepsPlaying`).
  That the cells cover the grid is not inductive.  A merge removes the cells its growing rectangle meets
  (`IsSweep`), and the new cell replaces the one whose number it takes, whether the sweep met that one or not.  On a
  table with arbitrary overlaps this leaves a slot bare.  The overlaps that merges can produce are fewer: through
  every cell goes a column that no later cell takes but one that reaches below it (`FreeColumn`), and a later cell
  that starts in the same row and reaches below it also reaches beyond its right (`ReachesRight`).  With these the cell
  that is replaced lies inside of the new one (`ReplacedInside`), and so nothing is bared.  Merge keeps both:
  `OneSide` says that a rectangle which passes a cell without reaching above or below it does not cross its free
  column, `FirstReach` and `AboveStays` follow the rectangle's top row through the sweep.  `Sound` is all
  of it, `MergeSound` the step.  The sweep's recursion is unfolded by the least number at which a claim about it fails.
  `ScreenInv` adds the widgets: their numbers are a permutation, both layouts, the current one and the one saved last,
  are sound and have a widget for each cell, and what is visible is one of the two cases of `ShowsTheTable`.

Every invariant and action property of the passing runs is stated by a theorem, and so are both refinements.

## 5. What is only model-checked

Liveness (`StopEndsGet`, `StopEndsPlayback`, `SeekReturns`, `EndReachesCodecs`, `ReadingGoesOn`, `RetryGoesOn`,
`CallbackReturns`,
`MeetsAudio`, `BackOnSchedule`): fairness and ENABLED are out of the prover's reach.  The violations: a
counterexample is TLC's to show.

The library's induction theorems take an operator as a parameter, which the provers cannot instantiate.  Where a
proof needs an induction over data, it takes the least element of the set of counterexamples
(`Least`, `NoneBad`) and gets a contradiction; so nothing had to be left to TLC for it.

## 6. Plan

Most important first; 1 to 9 are done.

1. `PacketQueueOps`, `PacketQueue`, `PacketChannel` with proofs.
2. `HThread`, `HFFPlayer` with proofs of the status.
3. `Pipeline` with the watermark's proof.
4. The findings as violation runs.
5. `VideoWidget`: the widget's status, timers, retries, and the queue of events between a player and its
   widget, with proofs.
6. `FrameBuf`, `FrameCache`: the ring's layout under push, pop, squeeze and clear.
7. `Table` and `MultiView`: layouts, merge, exchange, stretch.
8. `AudioOut`: the callback, `play_buf` and its index.  `AVSync`: the delays and the clocks.  `seek` in `HFFPlayer`.
   With proofs of `AudioOut` and of `seek`.
9. Proofs: every invariant and action property that a passing run checks.
10. `Player`: `HFFPlayer` with `Pipeline`'s `seek` and the events, for a late EOF after a seek, and the proof that a
    player's steps are those of both.

## 7. What is not modelled, and why

Renderers, windows, dialogs and tool bars draw and lay out; configuration and `main` read files.  HVideoCapture
is not built.  The choice among decoders, pixel formats and sample formats in `video_init` and `audio_init` is a
sequence of library calls on data of one thread; only its outcomes are in `HFFPlayer`.  `HVideoPlayer` is an interface.
The memory of a deque's node after `pop_front` (`hframe.cpp:19`, `63` use it) and heap leaks are below the models.

`3rd`, `GL`, the rest of `hv` and `src/ffplay.c` are vendored or reference code: they are all but five thousand of the
repository's 269 thousand lines, about two thousand of which have the logic and are modelled.  The share of lines
that the map covers is small for that reason and cannot become large.
