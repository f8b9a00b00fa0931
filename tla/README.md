# Verification of dtplayer

dtplayer is a media player written in C: a core that opens, demultiplexes,
decodes, synchronises and shows a file, behind a small API. This directory
holds TLA+ models of its core logic, the TLC configurations that check them on
small instances, and proofs of their main invariants for every instance
(TLAPS). Paths below are relative to the repository's `src/`.

1. The system · 2. The modules · 3. The runs · 4. What is proved ·
5. Findings, and what else was observed · 6. Not modelled · 7. What could follow

## 1. The system

### Parts, their state and their operations

| Part | Source | State | Operations |
|---|---|---|---|
| application interface | `dtplayer/dtplayer_api.c` | a handle | init, start, pause, resume, stop, seek: each allocates an event and sends it |
| event service | `dtutils/dt_event.c` | list of services, each with an event queue; `service_lock`; `exit_flag` | register, remove, send, send_sync, get, release; a transport thread |
| player | `dtplayer/dtplayer.c`, `dtplayer_update.c`, `dtplayer_host.c` | `state.cur_status`, `ctrl_info`, times | init, prepare; a thread, `event_handle_loop`: handlers, state update, buffering check, end of file |
| IO loop | `dtplayer/dtplayer_io.c` | `io_loop.status`, `io_loop.flag`, `tid`; a packet in the thread | start, pause, resume, stop; the thread reads the demuxer and writes the host |
| host | `dthost/dthost.c`, `dthost_api.c` | clock, `sync_mode`, first and current timestamps, discontinuities, `drop_flag`, the parts below | init, start, pause, resume, stop, read/write frame, get_state, A/V synchronisation |
| port | `dtport/dtport.c`, `dt_packet_queue.c` | three packet queues with limits | write, read, flush, get_state |
| audio | `dtaudio/` | decoder, PCM ring (`dtutils/dt_buffer.c`), output | an event loop, a decoder thread, an output thread |
| video | `dtvideo/` | decoder, picture queue (`dtutils/dt_queue.c`), filter, output | a decoder thread and an output thread; driven by the host directly |
| subtitles | `dtsub/` | decoder, queue, output | the same as video |
| demuxer | `dtdemux/` | the opened format, stream information | open with probing, read_frame, seekto, close; formats AAC, ffmpeg (TS is not built) |
| stream | `dtstream/` | position, `eof_flag` | open, read, seek, close; file, curl, ffmpeg, and a read-ahead cache with a thread |
| plug-ins | the `register_*` functions of every part | global lists, threaded through global objects | register built-in and external ones, select, remove all |
| command-line player | `tools/` | window, renderer, texture, `quit` | main loop over window events, `update_cb`, SDL video and audio devices |
| utilities | `dtutils/`, `dtcommon/` | settings | log, ini, strings |

### How they interact

The application's calls become events. `dt_send_event` puts an event into the
hub; the transport thread moves it to the service it is addressed to;
`dt_send_event_sync` (used for a seek) moves it in the caller's thread. The
player's event loop takes its events, and calls the host, the IO loop and the
demuxer directly; to audio the host sends events again, which audio's own loop
takes, while video and subtitles are changed directly. Data goes stream →
cache → demuxer → IO thread → port queues → decoder threads → PCM ring or
picture queue → output threads → device. Upwards, output and decoders call the
host for the clock, for the first timestamps and for the start-up drop. A seek
stops and frees the host (joining all its threads), moves the demuxer and
builds the host anew, while the IO thread stays. Streams, demuxers and the
lists of plug-ins are global: one player finds what the one before it left.

### What is hard in it

- Flags and status words shared between threads without a lock
  (`io_loop.status`, `cache_status`, `audio_out.status`), with polling loops that
  wait for the other side's value: a late write of one side undoes the other's.
- A seek in the middle of everything: packets read before it, a thread that
  meets EOF during it, a demuxer that refuses it, commands that overtake it.
- Locks held over a join, removal without the lock, look-ups that go stale.
- Threads that use what another thread frees: rings, queues, devices, windows;
  only the order of stops and joins keeps them apart.
- Limits: one full queue blocks every stream; buffering waits for levels that
  may be out of reach; a ring may hold too much to write and too little to read.
- Rings with pointers that are never reduced modulo the size.
- Clocks of three threads, two units of time, timestamps that jump.
- Failure at any stage of building the host or opening a file, and what the
  branches that clean up leave behind in global objects.

`PROJECT.json` lists each of these as a hazard at the line where it bites, with
the properties that would catch it, or a note where none does.

### What makes each part correct

| Part | Correctness |
|---|---|
| event service | every command reaches its service exactly once and in order; no freed service is used; what is sent is taken |
| IO loop and player | nobody reads or writes while a seek rebuilds; one reader; no packet from before a seek after it; the host does what the status says; a STOP ends |
| host | no thread outlives what it works on; audio and video are in one state; a pause is prompt; a stop ends |
| clock | no picture before its time; the position shown is that of the content; pictures never freeze; lost synchronisation comes back |
| start of audio and video | one side catches up, never both and never neither; sound and pictures begin together |
| port | no packet lost, doubled, reordered; limits hold; buffering ends; the file is shown to its end |
| decoders | pictures in order with growing times; the time of the sound is the sample heard |
| PCM ring, picture queue | a bounded FIFO; a deque |
| stream cache | the demuxer reads the bytes of its position; seeks end; the ring refills |
| opening | the demuxer is chosen by the head of the file and starts there, whatever earlier sessions left running; what was ruled out is not played; what was opened is closed |
| plug-ins | the lists end, and hold the built-in members |
| AAC demuxer | every frame once, in order, with its time, over junk and after seeks; what is accepted can be opened; the reader gets its frame |
| command-line player | the window outlives the pictures; what is copied fits; quit ends; sound is heard in order and to its end |

## 2. The modules

| Module | Models | Built on |
|---|---|---|
| `ByteQueue`, `Deque` | abstract: a bounded FIFO of bytes; a deque with a position | |
| `ByteRing` | `dt_buffer.c` | refines `ByteQueue` |
| `LinkedQueue` | `dt_queue.c` | refines `Deque` |
| `EventService` | `dt_event.c`, every call that changes state | |
| `EventUsers` | `dtaudio_api.c`, `dtaudio.c`, `dtplayer_api.c`: owners of services, senders, removal, restart, release | extends `EventService` |
| `PlayerIo` | `dtplayer_io.c`, both sides of the IO loop | |
| `Player` | `dtplayer.c`, `dtplayer_update.c`, `dtplayer_api.c`, the host as one value | extends `PlayerIo` |
| `Plugins` | the lists of streams, demuxers, decoders, outputs, filters | |
| `MediaOpen` | `dtstream.c`, `dtdemuxer.c`, `stream_file.c`, opening of `demuxer_ffmpeg.c` and of the cache | extends `Plugins` |
| `PlayerOpen` | `player_init`, `player_prepare`, `dtplayer_host.c`, the end of the loop; sessions one after another | extends `MediaOpen` |
| `AudioService`, `VideoService`, `SubService` | the three parts of the host with their threads: `dtaudio/`, `dtvideo/`, `dtsub/` | |
| `HostServices` | `host_init`, `_start`, `_pause`, `_resume`, `_stop` of `dthost.c` | composes the three services |
| `HostClock` | clock and synchronisation of `dthost.c`, `video_output_thread`, `calc_cur_time` | |
| `AvStartup` | the loops of both decoders at the start of a file, `host_start`, `host_stop`, the host's first timestamps | |
| `AudioDecoder`, `VideoDecoder` | `audio_decode_loop` with `ad_ffmpeg.c`, `video_decode_loop` with `vd_ffmpeg.c`: what goes in and comes out | |
| `PacketFlow` | `dtport.c`, `dt_packet_queue.c`, `player_buffering_check`, the data side of the IO thread | |
| `StreamCache` | `stream_cache.c`: ring, fill thread, read, seek, close | |
| `AacDemuxer` | `demuxer_aac.c` over `stream_file.c` | |
| `VideoFilter`, `SdlWindow`, `Tool` | `dtvideo_filter.c` and `vf_ffmpeg.c`; `gui_sdl.c`, `vo_sdl2.c`; `dt_player.c` | each extends the one before |
| `AoSdl` | `ao_sdl.c`, `ao_sdl2.c` with the writing loop of `audio_output_thread` | |
| `MC*` | the instances TLC checks, see section 3 | |
| `*_proofs` | the theorems, see section 4 | |

### ByteRing and LinkedQueue

`rd_ptr`, `wr_ptr`, `level` and the cells of `ByteRing` are those of `dt_buffer_t`;
`out` and `ret` are what the last call gave its caller. Each operation holds the
mutex throughout and is one action. Pointers may rest on `Size`, an alias of 0,
as in the code. The refinement maps the ring to the sequence of bytes from
`rd_ptr` on; `buf_put` stores what fits and returns how much that was.

`LinkedQueue` has nodes as heap cells with `next`, `prev` and `item`, and `head`,
`tail` and `length`. A call holds the mutex for all it does, except that the
n-th push and pop let it go before they hand over to the call for an end, and
that flushing takes it anew for every item; `call` is what each of two callers
has left to do. Taking the last of several nodes by its position follows a
pointer that is not there and ends the process (`queue = "crashed"`); that is no
step of the deque, so that `ImplementsDeque` as the comments of the code promise it is
not true of the code (section 5), and `DequeButForLast` allows that one call. The
refinement maps the chain from `head` to a sequence.

### EventService and EventUsers

`hub` and `queue[s]` are the event lists, `list` the linked services, `live`
the allocated ones. `dt_transport_event` is two actions, the look-up under
`service_lock` and the append, because `dt_remove_service` takes no lock and
may come between. `release_begin` takes the lock and joins; `release_end`
needs the transport thread to be gone. The registration check stops in front
of the last entry, as the code's loop does, and removing an id takes out its
first entry only. `order` is history: the pairs of an event and one sent after
it to the same service, both through the hub and not yet taken.
`EventUsers` says who calls: an owner registers and runs a
loop, leaves on STOP, is removed; a failed start leaves its service registered;
the player's loop releases the manager. How the clients behave is `conduct`, a
record chosen from `Conducts` at the start and never changed: which events end a
loop, whether anything follows a STOP, whose start may fail.

### PlayerIo and Player

The IO thread's loop is cut at every access to `status` or `flag`: `top` (flag),
`mark` (status := PAUSED), `check` (QUIT?), `gate` (PAUSED?), `read`, `eof`,
`write`. The event loop has a program counter `ctl`; every call that waits or
touches the shared words is a step between two of its values, so a seek is
`seek_flag → seek_spin → seek_stop → seek_demux → seek_init → seek_check → …`.
Handlers set `pstatus` and `host` ("none", "ready", "running", "paused") as
`dthost.c` does. `stale`, `fresh` and `rested` are history: which IO thread holds
a packet from before the last seek, whether the rebuilt host has had a packet,
which thread has slept while paused. `setting` is what the application, the stream
and the demuxer are like, chosen from `Settings` at the start and never changed:
how many commands are sent and whether STOP is the last, a live stream whose
decoder is reset, loop mode, seeks the demuxer may refuse. The model starts when
`player_prepare` has returned and ends when the loop has freed the player.

### Plugins, MediaOpen and PlayerOpen

`head[kind]` and `next[plugin]` are the global list pointers and those inside
the plug-ins: a list threaded through its members becomes a ring when a member
is put in front twice. `MediaOpen` follows the application's thread (`app`)
through `dtplayer_init`: a stream is taken, opened, perhaps wrapped by the cache,
its first blocks are read into `probe` until the buffer is full or the
retries are used up, the stream is moved back, and the first demuxer that
accepts the probe opens it. `info` and `priv` belong to global objects and
survive a session, and so does the thread that fills a cache: `reading` is the
sessions that have one, since nothing stops it when a session is given up or only asked
for its media info. It reads through the global file stream, from whatever file
is there by then; `strayed` remembers that it has read from the current one.
`held` records what each session acquired and has not
released; the code keeps no such record. The AAC demuxer's `close` frees nothing and
`dtdemuxer_close` keeps its context, so both stay in `held`. A file is a number of blocks with its
tracks; a job is a file with what the application and the ini file ask for, the
ini file as it is written: `player.nosub` is in it and never read.
`PlayerOpen` adds the choice of tracks and defaults in `player_init`, where a
negative number stays, the parameters of the host, service, host and IO thread in
`player_prepare` with their failures, packets with the track they are from, and
the loop's end: the status is EXIT and the application hears of it
(`leaving`), and only then come `player_remove_all` and the end of the thread. An
application may open its next player in between (`hasty`), go on to the next file after it got
its media info, and register a plug-in at any time, also twice (`doubled`, for
the kinds whose registration does not look for that).

### AudioService, VideoService, SubService and HostServices

The services have one status word per thread, as the code: `audio_state`,
`ao_status`, `adec_status` and so on, and a place per thread. Audio's commands
travel through `audio_events` to its own event loop; video and subtitles are
changed by the caller. A packet, a piece of PCM and a picture are units, and
when one is due is left open, so everything may happen at any time. What is
freed is marked: a ring or queue of level -1, `ao_device` "none", a device not
in `vo_open`. An output that finds a real device looks (`vo_find`) and then
replaces its context (`vo_switch`), and a stop may come between. `vo_local` is the
output thread's own pointer, which the switch leaves as it was and the next
picture is rendered with; `ao_seen` and `vo_seen` are what a stop read before it joins.
The audio decoder looks at the output's status in one step and asks its device for
the delay in the next.
`HostServices` is the one caller, a step per call and per join (`ctl`), with
a failure at every stage in `MayFail` followed by the code's own clean-up.
What comes of using a context that was freed is undefined: such a step
(`UsesFreed`) may pass or end the process (`alive` becomes FALSE, as it does on a
resume before the output has opened its device).

### HostClock

A tick is the pace of the model: the output threads and the event loop come
round in every tick. `host` has the clock fields of `dthost_context_t`; the
`host_*` operators are functions on it, translated one to one, with the
comparisons in ticks or milliseconds that the code makes. `audible` and
`picture` are content positions; the content has timestamps that jump at `Cut`
by `file.jump`. `video_output_thread` reads the clock and then acts, in two
steps, so real time, a resume or the sound may move it between.
`ctl` is what `calc_cur_time` keeps; a time reported beyond `Far` is kept as `Far`.
Two variables are history: `led`, that the sound has checked the clock in its last
round and nobody else has set it since, and `ctl.strayed`, that both streams
were past their jump while they were apart.

### AvStartup

`audio` and `video` hold the locals of `audio_decode_loop` and
`video_decode_loop`, with a program counter cut at each ioctl that reads what
the other decoder writes: `read → sync → sync_done → refill` (or `push`). `host`
is the part of `dthost_context_t` they share: the two first timestamps and
`drop_done`. A GET and the SET that follows it in one round are one step, since
`drop_done` is only ever set. The IO thread and the port are those of
`PacketFlow` reduced to numbers of packets; timestamps are regular and valid, so
the packet at the head of a queue is known from its length. `drop_size` is kept
as a duration, which leaves out the rounding to 16 bytes. `clock` counts from
`drop_start`, `Timeout` stands for the three seconds of `drop_timeout`.
`sounded`, the first frame of PCM that was kept, and `shown` are history. The
codecs are external: `DecoderDelay` packets go in before a picture comes out.

### AudioDecoder and VideoDecoder

Samples and pictures are their numbers. The codecs are libavcodec's and known
from how the wrappers call them: the audio codec decodes the first frame of the
data, fails, or asks for more; the video codec takes a packet, keeps `Delay`
pictures back and gives them in the order of showing. `AudioDecoder` counts as
the loop does (`times` has its five `pts_` fields) and puts samples into the ring;
the output thread reads up to `UnitSize` of them into a buffer of its own
(`unit`), offers that to a device which takes what it has room for, and
reads again when all of it was taken; `audio_get_current_pts` is what the host
asks, at any moment between these steps.
`VideoDecoder` gives every picture its time, read or counted.

### PacketFlow and StreamCache

In `PacketFlow` a packet is its number in its stream. The demuxer gives packets
in an order in which no stream runs more than `Skew` ahead. The IO thread holds
one packet and offers it until it is let in. `Accepts` is the test of
`port_write_frame` and `packet_queue_put`, with the comparison of the video
packet count with the byte limit that the code makes. `decoded` stands for PCM
ring and picture queue. `player_buffering_check` uses the byte levels with -1
for a missing stream, as `host_get_state` reports it. `StarveEachOther` is the state in which
nothing moves any more: buffering waits for both levels, the IO thread for a full queue.

In `StreamCache` a byte is its offset in the source. `level`, `pre_size`,
`pre_rp`, `rp` and `wp` are updated as the three branches of `cache_write` and
the branches of `cache_read` and `cache_seek` do, the mistaken `pre_size` of
line 156 included. A seek goes to any place, by position or by a step; the distance
is wrapped to an int of `-IntMax - 1 .. IntMax` before the ring is asked. `strays` is history: in which of four
ways a seek has gone elsewhere than it was asked to, because it was `wide` (or the
`least` int, whose absolute value C does not define), went back `beyond` the preserved fifth,
back within it in `front` of the ring, or was `relative` to a position the
source had left. The thread's loop is cut at each look at `cache_flag`,
`cache_status` and the free space; the read of the source is a step of its own
because it may block. `info.eof_flag` is not there: the code never sets it (see
section 5).

### AacDemuxer

A file is a sequence of bytes built from frames and junk, so that the model
knows where the frames are. Probe, bit rate, duration, the search for a
header, the read with its carry-over and the seek are pure functions of the
bytes and the position, written with recursive functions. A frame has a length
and the index of its sampling rate; the probe looks at neither the rate nor what
comes before the frames (a run of more than `Many`, 500 in the code, is enough),
`aac_parse_frame` does. `passes` is what the reader hands over: a packet, as this
demuxer declares, or the address of a pointer, as the table of demuxers does and
the IO thread, which is then given the frame's bytes for a pointer (`given`).
`expected`, the number of the frame to come, is history.

### Tool, SdlWindow, VideoFilter and AoSdl

`Tool` is `main` with a place per step, the user's events, the transport thread
that carries commands from the hub to the player (`hub`, `carried`, `queue`), and the
player's loop reduced to what it does to the window (it stops and builds the
video device on a seek and stops it at the end) and to how it ends: it releases
the service, takes the lock and joins the transport thread with it, calls `update_cb`.
`overwritten` remembers that a STOP was handled together with a later command. `SdlWindow` has SDL 1 and
SDL 2 side by side; sizes are names, the texture is the size it was made with,
and the mutex both sides take is `lock`. `VideoFilter` is a record of the
parameters it was given and those its context was made from. In `AoSdl` the PCM
is numbered blocks; the output thread writes what it read until the ring has
taken it, and SDL's thread takes a period at a time.

## 3. The runs

A run is one question. Small parts that share nothing share a run: an `MC` module
composes them under a variable that says which part a behaviour is about. Times
are for two workers.

| Run | Module, config | Expect | Instance and why it is enough |
|---|---|---|---|
| `sequential_parts` | `MCSequential`, `Sequential.cfg` | pass | `subject` is one of: ring of 3 bytes, two byte values, chunks and requests up to 4, so every alias of 0, empty, full, over-full; queue of 5 nodes, two items, two callers, positions up to 6, so both directions of the walk, the last place and places beyond the end; AAC files of up to six pieces, frames of two sizes, junk with and without 0xFF, also in front of the frames, headers with no sampling rate, files of 7350 Hz, readers of both kinds; video streams with reordered and packed pictures; audio streams with packets of different lengths, an output buffer of 2 samples and a device with room for 3; 67,712 states, 80 s |
| `event_users` | `MCEventUsers`, `EventUsers.cfg` | pass | player and audio service, two clients, five commands, one of them synchronous, and clients of two conducts. With the orderly one a stop and restart of audio is in flight; with the other a failed start, a second service of the id, commands after STOP. 81,731 states, 1 min |
| `player` | `MCPlayer`, `Player.cfg` | pass | a network source, room for a second IO thread, and players with three settings. The first: START and any three commands, STOP last. The second: two commands, the demuxer may refuse every seek. The third: two commands in any order, a live stream with decoder resets, refused seeks, loop mode. 938,324 states, 2 min |
| `player_loop_stop` | `MCPlayer`, `PlayerLoopStop.cfg` | violation | one command in loop mode |
| `av_startup` | `MCAvStartup`, `AvStartup.cfg` | pass | audio only, video only and both, beginning at 0, 2 or 7 each, so at once, within `DropThreshold` either way and beyond it; audio queue of 5, video queue of 1; room for one picture and one frame of PCM; drop on and off; a stop at any moment; 608,996 states, 50 s |
| `data_path` | `MCDataPath`, `DataPath.cfg` | pass | `buffer` is one of: 6 audio, 6 video and 1 subtitle packet, skew 2, queues of 2 packets / 4 and 6 units, one seek; 8 bytes through a ring of 6 with 2 preserved, ints up to 7, two seeks to anywhere, by position or by a step, short reads; 613,564 states, 2 min |
| `stream_skip` | `MCDataPath`, `StreamSkip.cfg` | violation | one seek (`SkipsFromHere`) |
| `video_flush` | `MCSequential`, `VideoFlush.cfg` | violation | a codec that keeps one picture back, at the end of the stream (`LeftFramesFlushed`) |
| `host_services` | `MCHostServices`, `HostServices.cfg` | pass | sound and picture, picture and subtitles, sound alone; each of six stages may fail; rings and queues of one unit, so every thread meets full and empty; two commands in flight; a second video device at any time; 456,265 states, 3 min |
| `host_clock` | `MCHostClock`, `HostClock.cfg` | pass | seven units of content and a jump of 22 or -26 ticks after the first: the largest jumps, that take the streams apart and are a discontinuity for the video output and for the host, on and back, at a cut that sound and pictures come upon in either order; the sound held up and pauses at any time; 700,129 states, 2 min |
| `player_open` | `MCPlayerOpen`, `PlayerOpen.cfg` | pass | two sessions with any of seven jobs: several tracks with choices by file, parameters and settings, a negative one among them; what the ini file rules out; the cache; a remote file; an empty one; one no demuxer takes; sessions given up and sessions that only ask for the media info; a hardware decoder of the application. The second file of these is a short local one, which is enough to meet what the first left. In other behaviours (`application`) four sessions with a file that plays and one that does not, a decoder and an output of the application registered at any time and again; 512,703 states, 2 min |
| `tool` | `MCTool`, `Tool.cfg` | pass | `half` is one of: window, two sizes of picture and of window, two formats, SDL 1 and 2, where the transport carries a command at once; end, one size and format, every order of the transport, in loop mode or not; both with three events, enough for a resize, a seek and a stop; sound, 8 blocks through a ring of 5, units of 3, periods of 2, both libraries; 365,444 states, 3 min |

**What they show.**

- `sequential_parts`: `ImplementsFifo`, the ring refines `ByteQueue`;
  `DequeButForLast`, the linked list refines `Deque` although every operation
  updates up to six pointers and two callers take turns within a call, but for the
  one call that never comes back; `EveryFrameOnce`, each AAC frame is read once,
  in order, with the time of its place, over junk and after a seek, and what the
  probe accepts is opened if it begins with a header, refused if it does not, and
  ends the process only where no header has a known rate; `PicturesInOrder`,
  whatever the codec refuses or keeps back; `SoundTimed`, the time put together
  from five counters of three threads is that of the sample heard next plus what
  the output thread holds in its own buffer: while the device refuses, the time told
  is ahead by that, at most a unit, and by nothing else.
- `event_users`: `EventsKept` (an event is in exactly one place, so none is freed
  or handled twice, and that place is never nowhere), `HubOrder` (commands of one
  service are never reversed between hub, transport and queue), `NoDanglingPointer`
  (as long as STOP is the last event of a service, its removal without a lock is
  safe), and under fairness `AllDelivered` and `ReleaseEnds` (the join under the lock
  returns, because nothing is left to transport). Stop-is-last is what
  `dtaudio_stop` arranges, and what these properties ask of the clients (`Orderly`);
  of `EventsKept` the one place of an event is checked for the others too.
- `player`: `SeekAlone` (nobody reads or writes while the host is torn down and
  rebuilt), `WritesBelong` (no packet from before a seek reaches the new host,
  and its first video packet is a key frame), `IoMatches` (the thread is where the
  loop believes it to be, and there is never a second one at the demuxer),
  `HostMatches` (the host does what the status says), and under fairness
  `LastStopEnds`, which covers the spins of seek, reset and the way out. The first
  two and the one reader are checked for every setting. That thread and host agree
  with the status is asked of players without resets and refused seeks (`Untroubled`),
  that a STOP ends the player of those to which nothing is sent after it, with no
  loop mode and no resets (`Final`); section 5 has what happens otherwise.
- `av_startup`: `OneSideDrops` (each decoder decides on its own from what it has
  read; never both catch up, never both wait), `AudioMeetsVideo` (audio that is
  ahead begins with the frame due with the first picture; audio that is behind
  loses nothing and begins when the video is there), and under fairness
  `BothBegin`. The video queue is shorter than the distance of the streams, so
  the case in which the IO thread is stuck with a packet of a decoder that waits
  does occur, and the video's time limit is what ends it.
- `data_path`: `InOrder` relates demuxer position, packet held, queues, decoded
  packets and packets shown; `PlaysToEnd` is liveness with one stream's full
  queue blocking the others: the file is shown to its end, or ends up in the one
  deadlock there is, `StarveEachOther`, which is reached with these limits;
  no other loss of progress is excused. `CacheHoldsFile`:
  ring, chunk in the thread and source position continue the demuxer's position
  (nothing lost, doubled or left over from before a seek), and what is preserved
  behind it is the file, until a seek has gone astray in one of the four ways of
  `strays`; each of them is a definition of its own, and section 5 says what then
  happens. `Refills`: seeks end and an empty ring fills.
- `host_services`: `LivesNest` (what a thread works on outlives it and no thread
  outlives the host; after a dynamic switch the output's own pointer and the one
  a stop has read name the freed context, and a decoder may ask a device that
  was stopped under it: these are named in the property, nothing else is excused), `InStep`
  (audio, commanded by events, and video, commanded directly, come to the same
  state), `PauseIsPrompt`, and under fairness `StopEnds`: each join returns,
  whichever loop the thread was waiting in, unless the process has died of one of
  the uses of freed memory.
- `host_clock`: `NotAhead` (while the clock is the sound's, no picture is taken
  ahead of what is heard), `TimeIsContent` (the position reported is that of the
  content although it is put together from two streams, their jumps and points
  read at different times; not asked once both have jumped while apart), and under
  fairness `PicturesEnd`, `SyncRestored`. The instance is the one of those tried
  (content of 6 to 9, cuts at 0 to 3, jumps of 0, 6, 14, 22 and -26) in which
  the most can happen in the time of a run; the safety properties hold in all.
- `player_open`: `ProbeIsHead` (unless a cache thread of an earlier session has read
  from the file), `PlaysWhatWasChosen` (asked of the ini file
  as it is written, except for `nosub`, which the program never reads),
  `NothingLeftOpen`: of every session that has ended, that it holds the demuxer's
  contexts and nothing else; of every session, given up or not, that no service, host
  or IO thread of it is left behind; and of the current one, that it reads its own
  file; `PluginsStay` (the lists end and hold the built-in
  plug-ins, with every registration the application can make and a next player
  opened as soon as EXIT is told; the two ways it is lost are named).
- `tool`: `WindowOutlivesVideo`, `PictureFits` (what is copied has the texture's
  size and every conversion read the picture as it was), `HeardInOrder`, and under
  fairness `ToolEnds` (quit or the end of the file ends the program, unless the
  player waits for a transport thread that waits for the player's lock, or a STOP
  was overwritten in loop mode) and `SoundDrains` (the writer waiting for room and the device waiting for a period do
  not wait for each other).

Every property of a passing run has a mutant: a plausible bug in one mapped
definition under which the same run finds the property violated. The types of
`ByteRing`, `EventService`, `Player`, `AvStartup`, `PacketFlow`, `HostServices`,
`HostClock`, `PlayerOpen` and `Tool` are left to the proofs.

**Bounds.** The `commands` of a setting, `MaxSeeks`, `MaxCacheSeeks`, `MaxSessions`, `MaxEvents`,
`Total`, `Length`, `Content`, `MaxAge`, `Far` and `MaxRead` bound the commands, seeks,
sessions, data and times of a run; nothing else is bounded. `IntMax` is the greatest
int (2^31 - 1 in the code): `Length` lets a distance exceed it. In `av_startup` the file (`End`)
lasts past both beginnings. Two seeks are needed for a seek that meets a thread
still busy with the previous one; a third command lets a pause or STOP come
between; a second session meets what a finished, a failed or an abandoned one left, and
the lists of plug-ins are followed over four.
`ReadOnce`, `RetryFirst`, `Many`, `UnitSize`, `PcmRing`, `PictureQueue` and the thresholds of the clock
are the code's numbers scaled down, with their order kept. `CHECK_DEADLOCK FALSE` is set where the program
really stops: after exit, after release, when the file has been shown, or when
the application has nothing more to say.

**Timing assumptions.** `Prompt` in `PlayerIo` says that the IO thread goes round
its loop once in the time the event loop takes to stop and rebuild the host,
that the event loop is not held up for 100 µs between two adjacent statements,
and that the first START has been delivered before a seek is handled.
`Prompt` in `StreamCache` says that the fill thread is not held up between a
look at a shared word and the statement that follows while the demuxer goes on.
The code counts on both and enforces neither; without them TLC finds
violations (section 5). `HostClock` assumes that each thread comes round once in
a tick.

**Fairness.** Threads that loop are scheduled: weak fairness of each thread's
step. Strong fairness where a thread competes for a lock held for a few
instructions (`EventUsers`), where `Prompt` holds a step back while the other
thread is between two statements and that thread sleeps in every round
(`StreamCache`), where the tool's main thread wants the mutex that the video
thread takes again and again (`Tool`), and for the sound being heard (`HostClock`,
whose ticks may hold the sound up as often as they like but not for ever). The
application, the user, the end of the file, and the demuxer as a reader of the
cache need not do anything, except to finish a call they started. In
`AvStartup` time passes, and `host_stop` goes on once it was called but need
never be called. `AacDemuxer`, the decoders, the ring and the list are checked for
safety alone.

## 4. What is proved

For every value of the constants that satisfies the named assumptions:

| Theorem | States |
|---|---|
| `Sequential_proofs!RingInvariant` | `Spec => [](TypeOK /\ PointersAgree)` |
| `Sequential_proofs!RingIsFifo` | `Spec => ImplementsFifo`: the ring refines the FIFO |
| `Sequential_proofs!ListIsDeque` | `QueueSpec => DequeButForLast`: the linked list refines the deque, up to the call that ends the process |
| `Sequential_proofs!VideoInOrder` | `(\A u \in Untimed : u = {}) => (VdecSpec => []PicturesInOrder)` |
| `Sequential_proofs!SoundOnTime` | `(\A u \in UntimedPackets : u = {}) => (AdecSpec => []SoundTimed)` |
| `EventUsers_proofs!LockInvariant` | `Spec => []LockHeld` |
| `EventUsers_proofs!NeverDangles` | `Spec => []NoDanglingPointer` |
| `EventUsers_proofs!CommandsInOrder` | `Spec => []HubOrder` |
| `EventUsers_proofs!EventsAreKept` | `Spec => []EventsKept` |
| `Player_proofs!PlayerTyped` | `Spec => []TypeOK` |
| `Player_proofs!PlayerSeeksAlone` | `ASSUME Prompt PROVE Spec => []SeekAlone` |
| `Player_proofs!PlayerOneReader` | `ASSUME Prompt PROVE Spec => []OneReader` |
| `Player_proofs!PlayerWritesBelong` | `ASSUME Prompt PROVE Spec => []WritesBelong` |
| `Player_proofs!PlayerIoMatches` | `ASSUME Prompt PROVE Spec => []IoMatches` |
| `Player_proofs!PlayerHostMatches` | `ASSUME Prompt PROVE Spec => []HostMatches` |
| `HostServices_proofs!HostTyped` | `Spec => []TypeOK` |
| `HostServices_proofs!HostNesting` | `Spec => []LivesNest` |
| `HostServices_proofs!HostInStep` | `Spec => []InStep` |
| `HostServices_proofs!HostPausePrompt` | `Spec => []PauseIsPrompt` |
| `PlayerOpen_proofs!OpenTyped` | `Spec => []TypeOK` |
| `PlayerOpen_proofs!OpenProbes` | `Spec => []ProbeIsHead` |
| `PlayerOpen_proofs!OpenPlaysChosen` | `Spec => []PlaysWhatWasChosen` |
| `PlayerOpen_proofs!OpenLeavesNothing` | `Spec => []NothingLeftOpen` |
| `PlayerOpen_proofs!OpenPlugins` | `Spec => []PluginsStay` |
| `AvStartup_proofs!StartupTyped` | `Spec => []TypeOK` |
| `AvStartup_proofs!StartupSilent` | `Spec => []NoSoundBeforeAgreed` |
| `AvStartup_proofs!StartupOneSide` | `Spec => []OneSideDrops` |
| `AvStartup_proofs!StartupWaits` | `Spec => []AudioWaited` |
| `AvStartup_proofs!StartupMeets` | `OneFrame => (Spec => []AudioMeetsVideo)` |
| `DataPath_proofs!FlowTypes` | `Spec => []TypeOK` |
| `DataPath_proofs!FlowInOrder` | `Spec => []InOrder` |
| `DataPath_proofs!FlowBounded` | `Spec => []QueueBounded` |
| `DataPath_proofs!CacheKeepsFile` | `Prompt => (CacheSpec => []CacheHoldsFile)` |
| `DataPath_proofs!ClockTyped` | `ClockSpec => []ClockTypeOK` |
| `DataPath_proofs!ClockNotAhead` | `ClockSpec => NotAhead`: an action property |
| `Tool_proofs!ToolTyped` | `Spec => []TypeOK` |
| `Tool_proofs!ToolWindow` | `Spec => []WindowOutlivesVideo` |
| `Tool_proofs!ToolFits` | `Steady => (Spec => []PictureFits)` |
| `Tool_proofs!SoundInOrder` | `AoSpec => []HeardInOrder` |

*The ring.* Pointers are not a function of the level, since 0 and `Size` are one
place. The inductive invariant says that the write pointer is the read pointer
plus the level, or that minus the size; together with the types it decides each
branch of `buf_get` and `buf_put`. The refinement follows from how `Cell` and
`Index` address the bytes.

*The list.* What `next` leads to from the head, step by step, is a function that the
walk of `get_node_link_nth` computes; that it exists for every length needs
induction, which the prover has as a fact about sets of numbers (`Induct`: a set that
has 0 and with n also n + 1 has them all, since the rest would have a least member).
The invariant says that some row of cells is chained both ways (`Row`, `Chain`) and
that head, tail and the cells in use belong to it (`Links`). A push is then a cell put into the row and a removal one taken out (`Put`, `Take`),
and so it is for the sequence of items (`PutIn`, `TakenOut`); a walk from either end arrives
at the n-th cell of the row, so every call is the deque's, but for the last of several
nodes popped by its number (`PopsLastByNumber`), after which nothing happens (`CrashesOnce`).

*The pictures.* How many pictures the codec holds is what went in minus what came
out; when more than `Delay` are inside, the next to be shown is among them, by the
contract of a delay (`DelayAssumption`), so pictures come out under their own numbers
(`Numbered`). Their times are those of their places (`Timely`), for streams in which
every packet has a time: TLC finds `PicturesInOrder` violated otherwise (section 5).

*The time of the sound.* `Timed` says which part of the packet is where at each place
of the loop, and that what is in the device, in the output thread's hands and in the
ring are, one behind the other, the samples just
before the next one to be put in (`Given`, `RowBefore`, `NextIn`). What is told leaves out the
ring, and so counts what the thread holds as heard (`PartMissing`, `HeardNext`). After an error has lost
samples, none later than that. It is asked until a frame is decoded twice, as the wrapper
does with packets of several frames (`sound = "repeated"`, section 5).

*The lock.* The inductive invariant is `LockHeld` with the types of the program
counters and the lock: that exactly the owner stands inside is what forbids a
second thread to enter. Steps fall into four kinds (elsewhere, outside,
entering, leaving), one lemma each.

*The services.* `Orderly` is what dtplayer's own parts keep to: nothing is sent to a
service after its STOP, no start fails, and one client sends to an id. The properties
ask it of the clients, and the theorems hold for every conduct. Removal
takes no lock, so safety cannot come from one; it comes from STOP being last.
The inductive invariant says who owns which service (`Owned`), what a thread has
in its hands (`Hands`), that an event under way has a service that expects it
(`Expected`), that STOP is behind everything else of its service wherever it is
(`StopBehindAll`), and that a synchronous event is in the hands of the one client of its id, which
has not sent STOP (`SyncAlone`). When the owner leaves its loop nothing of its id is under way, so
nobody holds the pointer that is then freed. `HubOrder` needs little more: that both commands of each pair it remembers still
lie between hub and queue (`Ordered`), and that one transport moves them.
For `OneHome` an event's places (client, hub, transport, queue, owner) exclude each
other and each list holds it once; that holds under `Orderly`, and without it under
`Lasting`: a service that is sent STOP neither fails to start nor is started again,
so what was freed with a queue stays freed (`NotAgain`).

*The player.* The types split into those of the IO side, which every IO step
keeps, and those of the player, which every handler keeps; each handler is one
lemma. The three properties of the IO loop need `Prompt`, and hold with live
streams, loop mode and refused seeks. The inductive invariant ties three things
together: which status belongs to which place of the event loop (`StatusPlace`),
which place of the thread is possible with it (`ThreadPlace`), and that all but
the last thread are gone (`OneLeft`); `HeldPacket` and `KeyFrameHeld` say what
packet the thread may hold there. A stale packet exists only between the
rebuilding of a host and the thread's next look at the status. `IoMatches` adds
that a status under which the loop expects the thread has one (`ThreadThere`), and
`HostMatches` where the first START is: only seeks come before it, and until it is
handled nothing is done but seeking (`HubFirst`, `QueueFirst`, `StatusFirst`); then
`HostStatus` says which state of the host goes with which status. Of these, one reader is
proved for every setting, and that thread and host agree with the status for
`Untroubled` ones, with no live stream and no refused seek; TLC shows it violated
with either (section 5).

*The host.* A host has no variable that says how far it was built: that follows
from where its caller stands and which stage failed, so the invariant is written
over that (`VideoPhase`, `SubPhase`, `AudioPhase`), one part per service: which
threads, outputs and rings exist at which place of construction, of a pause and of
a stop (`PlaceInv`, `VideoInv`, `SubInv`, `AudioInv`, `StopInv`, `PauseInv`). `VideoInv` and `StopInv` say which
pointers may name a context that was freed: after a switch the thread's own and the one a stop
has read, no other. `AskInv` says that the device a decoder asks may have been stopped but is
there, and stopped only after its output was told to end. `LivesNest` reads off
what a thread can find; `InStep` needs in addition which state the command under
way leads to (`Target`, `StepInv`).

*Opening.* Each walk along a list of plug-ins, tracks or settings takes the first
that fits, and the properties are about the one it took: the number lemma `Least`
(a nonempty set of numbers has a smallest) stands under all of them. The
invariant says what is open at which place of `player_init` and `player_prepare`
and which of an older session's resources can still be there (`HeldInv`), what the
probe buffer holds unless a cache thread of an older session has read from the file
(`ProbeInv`), which choice was made from what, negative numbers included (`ChosenInv`), and
that the lists are what was registered until a plug-in was registered twice (`DoubledInv`).
`LoopInv` counts the event loops that have told EXIT and not yet removed the plug-ins: there is
none while a player exists, unless one was opened too early (`hasty`).

*The flow.* `InOrder` says that what is under way of a stream is an interval of
numbers. It is inductive with the types: a step that moves a packet from one
place to the next leaves the concatenation as it is, a read appends the next
number, a render removes the first. `FlowBounded` needs only that a packet is let
in below the limit and that other steps do not lengthen a queue.

*The cache.* A byte's place in the ring is its distance from where the source was
moved to last, modulo the size, and the two pointers stand on the places of the two
positions (`Pointers`); so a read, a write and a seek need only show that their
pointer moves as far as its position does, perhaps once round the ring (`PlaceKept`),
and a write that the bytes it overwrites have left the window (`WriteBytes`). The
lemmas about remainders stand first. What makes a seek back safe is `Preserved`: until
the ring has been full once, `pre_size` is right and `rp` has not wrapped; after that
`pre_rp` is never 0 again. A seek that is not in `Astray` goes to bytes that are there, by a
step that an int holds, without putting `rp` in front of the ring (`OnCourse`, `StepIs`); so the
invariant holds until the first that is (`NotAstray`), whatever the sizes and
wherever the demuxer seeks. The theorem needs `Prompt` alone: without it bytes are dropped.
`Handover` says how the threads hand the ring over for a
seek of the source: it is only moved while the fill thread idles with nothing in its hands.

*The clock.* `NotAhead` compares a picture with a clock that the video thread has read
before, so the invariant follows the clock from the sound's check to the picture. While
`led` holds, what was written down is at most the threshold and a round behind the
sound (`Close`), real time adds a tick for every round that a thread still has to
make (`Rounds`, `Heard`), and the thread comes round before the clock has run further
(`Fresh`); what it then compares with is `Compared`. All times that were set are above zero
(`Positive`), which is what tells them from -1. Each `host_*` function is taken apart in a
lemma that says which fields it may set and to what.

*The start.* `TypeOK` is not inductive: that the timestamp at the head of a queue
is not negative needs `Counted`, which relates what the demuxer has read to what
lies in the queue, in the IO thread's hands and inside the decoder (products of
a duration and a number, so each is computed in a step of its own); the bound of
the picture queue needs that room for a picture was seen before it was made. `OneSideDrops`
needs what each decoder's decision says of the host's two first timestamps, which
do not change once known (`AudioView`, `VideoView`): ahead means strictly, or not
strictly, before the other, and the two views exclude each other. Audio may find
its debt paid (`drop_size = 0`) without being behind; then it has told the host.
`NoSoundBeforeAgreed` needs that a decoder's own `drop_done` implies the host's.

For where the sound begins the host's first timestamps are those of the streams
(`Firsts`), and the timestamp of what a decoder gives next is counted from what
lies before it (`Ahead`, which `AheadMoves` follows through every step). Audio that is
ahead takes as its next frame (`Due`) the one at the video's first timestamp minus
`drop_size`, which counts down to 0 (`DropInv`); audio that is behind has its first
frame at hand until it is sounded, and the host's `drop_done` says that the picture
has caught up with it (`PictureBehind`, `WaitInv`). `StartupWaits` needs no assumption; `StartupMeets` needs
`OneFrame` (one frame in a packet): after a dropped frame the loop loses the rest
of the packet, and with two frames TLC finds the sound begin elsewhere (section 5).

*The tool.* `Ends` says how far the tool's window, filter and renderer may be torn
down given where the player is: the player stops before the tool does, which is why
the video thread finds its window. The transport thread and what it carries put no
limit on it (`TransportKeeps`): a player that never leaves `release` keeps the tool, and its window, for ever. `LockPlace` says who stands between lock and
unlock, `TextureSize`, `FilterMade` and `PictureMade` which size each of them was
made for. `PictureFits` holds for `Steady` tools: the pixel format does not change,
and no size is asked for on the command line with SDL 2 (section 5 has both).

*The sound.* What was heard, what is in the ring and what the thread holds are
three consecutive runs of block numbers; each transfer moves the border between
two of them.

Constants that stand for tables of the environment have assumptions of their own,
next to their declarations: `PluginsAssumption` (plug-ins are finitely many, each of
one kind, and a built-in list has none twice), `HardwareAssumption` (a hardware
decoder names its format), `MediaOpenAssumption` (sizes and counts are numbers, and an
AAC file has an audio track), `NodeAssumption` (NULL is no cell), `DelayAssumption` (a picture
is in one packet, and no more than `Delay` of those shown after it are decoded
before it), `AudioAssumption` (no packet and no frame is empty), `ClockAssumption` (no
time stamp is below zero), `EventUsersAssumption` and `PlayerAssumption` (conducts and
settings are records of their kinds). TLC evaluates them in the runs.

Only model-checked: all liveness (`AllDelivered`, `ReleaseEnds`, `LastStopEnds`,
`BothBegin`, `PlaysToEnd`, `Refills`, `StopEnds`, `PicturesEnd`, `SyncRestored`, `ToolEnds`,
`SoundDrains`), which is out of the prover's reach, as is `ENABLED`. `EveryFrameOnce`,
where the frames are found by recursion over the bytes of a file: what a recursive
definition gives for every file is induction over data. `TimeIsContent`, whose bound
(`Slack`) is a consequence of the numbers chosen for the run: by how much the streams may
differ before the clock lets go (`ThresholdMax`) is not limited by the thresholds that
tell a jump, and with other constants the position is off by more.

## 5. Findings, and what else was observed

Three runs expect a violation; they are the `findings` of `PROJECT.json`:

1. `player_loop_stop`: in loop mode the seek the player sends to itself
   overwrites a STOP handled before it (`dtplayer/dtplayer.c:753`).
2. `stream_skip`: a relative seek that leaves the cache is made relative to the
   fill thread's position (`dtstream/stream/stream_cache.c:570`).
3. `video_flush`: the flush the video decoder announces at the end of a stream
   sends nothing to the codec, so the pictures it keeps back are not shown
   (`dtvideo/dtvideo_decoder.c:188-190`).

**Claims the code does not keep.** The modules state more of what comments, names
and settings of the repository say. TLC finds each of these definitions violated
when it takes the place of the properties in the config named, with the constants
changed as said. The passing properties name the same states as exceptions, so
that nothing else can hide behind them.

| Claim | Config | What the code does |
|---|---|---|
| `ImplementsDeque` | `Sequential`, `Subjects = {"list"}` | `queue_pop_nth` with the number of the last of several nodes writes through NULL (`dtutils/dt_queue.c:356`), where `:328-332` promise the node's data. It has no caller today |
| `EveryRateOpens` | `Sequential`, `Subjects = {"aac"}` | a file of 7350 Hz passes the probe, none of its headers is parsed, and opening divides by zero (`dtdemux/demuxer/demuxer_aac.c:114`, `:242`), although `:61` lists the rate |
| `FrameReachesReader` | `Sequential`, `Subjects = {"aac"}` | the AAC demuxer's `read_frame` writes a packet over the pointer whose address it is given (`demuxer_aac.c:320`, `demuxer_wrapper.h:37`, `dtplayer_io.c:111`); no frame reaches the player |
| `FifthIsPreserved` | `DataPath`, `Buffers = {"bytes"}`, `CacheSize = 15`, `FixPre = 3`, `Length = 22`, `ReadPerTime = 6`, `MaxRead = 9`, `IntMax = 16`, `MaxCacheSeeks = 1` | when the demuxer has drained the ring, `rp`, `wp` and `pre_rp` meet. The writes that follow leave `pre_rp` where it is (`stream_cache.c:151`) and subtract `pre_size` for `pre_rp` (`:156`). A seek back by the fifth that is to be preserved (`:43`) is taken without a wrap (`:222`), and `rp` becomes -1 |
| `SeeksItsStep` | `DataPath`, `Buffers = {"bytes"}`, `CacheSize = 5`, `FixPre = 1`, `IntMax = 6`, `Length = 8`, `MaxCacheSeeks = 1` | the distance of a seek is kept in an int (`stream_cache.c:557`): a wider one is taken for a small step in the ring |
| `BufferingEnds` | `DataPath`, `Buffers = {"packets"}`, `MaxSeeks = 0`; also with `Media` and `Stream` `{"audio"}` | buffering waits for the levels of both streams (`dtplayer/dtplayer.c:690`). A video much heavier than the audio fills its queue first, the IO thread waits with the next packet in its hands, and the audio never gets to its level; with one stream the level of the other is -1 for ever |
| `ShowsOnItsDevice` | `HostServices` | after a dynamic switch the output thread renders with the context it has freed (`dtvideo/dtvideo_output.c:241`, `:341`) |
| `ProbeGoesBack` | `PlayerOpen` | the cache thread of a session that was given up reads from the file of the next one while that is probed (`stream_cache.c:427`, `stream_file.c:40`) |
| `SubtitlesRuledOut` | `PlayerOpen` | `player.nosub` (`etc/sys_set.ini:40`) is acted on (`dtplayer.c:149`) and never read |
| `IndexIsReset` | `PlayerOpen` | a track number below -1 is not reset and reads in front of the array (`dtplayer.c:201`) |
| `InfoLeavesNoFile` | `PlayerOpen` | the file of an application that only wants the media info (`dtplayer_api.c:73-74`) is never closed |
| `NextFindsPlugins` | `PlayerOpen` | a player tells EXIT before it removes the plug-ins, and removes those of the player that was opened by that news (`dtplayer.c:778`, `:781`) |
| `StopReturns` | `Tool`, `Backends = {"sdl2"}`, one size and format, `LoopModes = {FALSE}`, `MaxEvents = 2` | a player that ends by itself joins the transport thread with the lock that thread waits for, with a STOP in its hands; `dtplayer_stop` waits for ever (`dtutils/dt_event.c:126`, called at `dtplayer.c:776`) |

What follows was met while modelling; the models keep the code's behaviour, and
where constants are named, setting them so makes TLC show it.

**Events and the player**

- `dt_service_release` joins the transport thread while holding the lock it needs
  (`dtutils/dt_event.c:126`): with a command still in the hub the release never ends.
  Clients that send STOP last, and whose player ends by it, leave none there
  (`ReleaseEnds`); when the manager is released before the audio part is gone (the mutant
  `release_service_early`), or the player ends by itself (`StopReturns`), both wait for ever.
- The registration check misses the last service, so an id can be registered
  twice (`dt_event.c:176`); `dt_send_event_sync` reports success when nobody has
  the id (`dt_event.c:264`).
- `Player` with a live stream: after EOF the IO thread is gone, `player_dec_reset`
  pauses it without asking `io_thread_running` and the event loop spins, so that
  a STOP is never handled (`StopEnds`, `dtplayer.c:404`). `LastStopEnds` is therefore not
  asked of live streams; with refused seeks it holds.
- `Player` with a setting that `refuses`: a refused seek leaves RUNNING on a host that was
  torn down (`HostMatches`, `dtplayer.c:470`). A reset of a paused stream starts
  the host and leaves the status (`:409`).
- `Player` with `Prompt = FALSE`: an IO thread that sleeps through a whole seek
  carries a packet into the new host (`NoStalePacket`, `dtplayer_io.c:97`).
- `eof_flag` is never reset, so after a seek back buffering is off
  (`dtplayer_io.c:117`). In a file without video a seek waits for a key frame
  that never comes (`:125`).

**Opening and plug-ins**

- Failed opens leave what they had acquired: streams, cache threads, demuxers and
  probe buffers. A session that played leaves the demuxer's context, and what the AAC
  demuxer allocated (`demuxer_aac.c:252`, `:430-433`): `NothingLeftOpen` says that it leaves nothing else.
  Whether `avformat_close_input` frees the AVIO context and buffer made for it is FFmpeg's,
  and outside the model. When the host cannot be built, `player_prepare` joins an
  event loop that was given no reason to quit (`dtplayer.c:332`).
- An output or filter of the application that is registered twice makes its
  list a ring, in which every search for a plug-in that is not there goes on for
  ever (`dtaudio_output.c:25`); `doubled` remembers it.
- The curl stream is never selected (`dtstream.c:47`). A seek by bytes in a file
  without a duration divides by 0 (`demuxer_ffmpeg.c:755`).

**Packets, cache and the AAC demuxer**

- The video packet count is compared with the byte limit, so
  `port.video_max_num` limits nothing (`dtport.c:83`).
- `StreamCache`: a seek back beyond the fifth may be granted over bytes that were
  overwritten (`beyond`), and the absolute value of the least int is not defined (`least`);
  neither contradicts a line of the repository. With `Prompt = FALSE`:
  bytes are dropped between the space check and the write, and the thread may
  idle for ever after a seek (`stream_cache.c:406`, `:438`). A close during the last read
  never ends (`:431`, `:389`). An empty cache returns 0 before EOF is looked at,
  so a cached stream never reports its end (`:521`), and the AAC demuxer asks
  again for ever (`demuxer_aac.c:337-342`).
- The AAC demuxer reads a seek's time as microseconds (`demuxer_aac.c:408`); the
  player gives it seconds (`dtplayer.c:439`), so every seek goes to the
  beginning. A file that begins with junk is accepted when more than 500 frames
  follow, and then refused by the open (in the run, with `Many` for 500). A junk byte FF directly before
  a header hides it; a frame of 8 bytes, and a header that claims fewer, are not read as
  frames: these are outside `MCPieces`.

**Decoders, outputs and clock**

- `AvStartup` with `VideoDecodes = FALSE`: a video that never gives a picture leaves
  the audio waiting for ever (`BothBegin`). The audio's loop has no limit
  (`dtaudio_decoder.c:287`), although `etc/sys_set.ini:63` sets
  `host.drop.timeout`; the video's limit is a constant
  (`dtvideo_decoder.c:144`) and runs only once a picture is there. With `End = 8`
  the same happens when the video ends before it has caught up; with an audio
  queue that does not bridge the distance of the streams the IO thread is stuck
  with a packet of audio and the video gets none.
- `AvStartup` with `PerPacket = 2`: after a dropped frame the loop goes on to the
  next packet and loses what is left of this one (`AudioMeetsVideo`,
  `dtaudio_decoder.c:351`).
- `ad_ffmpeg.c:167` decodes a packet from its beginning whatever the loop has
  consumed (`dtaudio_decoder.c:234`), so the first of several frames is repeated
  (`sound = "repeated"` in `AudioDecoder`); after an error the packet's rest is dropped, also for decoders whose
  data is to be restored by the comment at `:238-241`; data kept for the next round
  moves the time by a packet; packets without a time restart the count with the
  cached part of the wrong sign (`:512-526`).
- A packet the video codec can never decode is sent again for ever
  (`dtvideo_decoder.c:197`); the time of a picture may jump back when some
  have none (`PicturesInOrder` with `Untimed = {{}, {3}}`). Pictures that are to
  be dropped are queued all the same (`:315-319`); `video_drop` has no caller.
- `host_init`: when audio cannot be built, the video threads stay on a context
  that is freed (`dthost.c`, ERR2, which stops the port alone). When a host is
  stopped, `aoc` is read before the join, so a device opened
  meanwhile is never closed; an output that moves to a new video device while it is
  stopped leaves one open, and the stop frees the other again (`vo_seen`); a decoder that has seen its
  output play asks the device after it was stopped (`dtaudio_decoder.c:364`); a resume before the
  first PCM uses a device that is not there (`dtaudio_output.c`). `LivesNest` names these
  exceptions, `alive` the last.
- `host_video_resize` resumes only audio. Milliseconds are compared with ticks
  (`dthost.c:57`, `:139`): a jump of 5 to 60 seconds is waited for in real time.
  With one stream the time reported restarts at 0 after a pause; jumps of both
  streams while they are apart are added again with each update (`ctl.strayed`).
- When sound and pictures have met again after a difference beyond the limit, a
  picture hands the lead back to the sound (`dthost.c`, `host_update_vpts`) and leaves
  the clock as it is: until the sound's next round pictures go by the clock of the
  pictures before, although the mode says the sound leads. `NotAhead` asks for a
  clock that is the sound's own (`led`).

**The command-line player**

- The tool clears its parameters to 0 (`dt_player.c:136`), which asks for track 0
  and not for any (-1), so that the ini file's track never applies.
- With SDL 2 a size asked for on the command line does not reach the filter, nor
  does a change of the pixel format (`PictureFits` with `Asked` or `FormatVaries`
  TRUE); the device's init initialises the mutex again while the
  window may hold it (`vo_sdl2.c:274`; `PictureFits` asks nothing once that happened, `overlapped`); the texture is destroyed
  after its renderer (`:346`); page up and page down both go forward
  (`gui_sdl.c:117-122`).
- `get_event` looks at an event that was never written when there is none
  (`gui_sdl.c:82`). A window that SDL 2 cannot make is reported as 1, which `main`
  takes for success (`vo_sdl2.c:61`).
- With an SDL ring smaller than a unit and a period together (11025 Hz) writer and
  device wait for each other (`SoundDrains` with `RingSize = 3`).

## 6. Not modelled

- The TS demuxer (`dtdemux/demuxer/demuxer_ts.c`, `ts/`): no build compiles it and
  it cannot be compiled, since it uses `dt_media_info_t` and `DT_TYPE_AUDIO`, which
  no header declares; it is never registered. `tsdump.c` is a tool of its origin.
- `vo_dx.c`, `vo_x11.c`, `vo_gl.c`, `vo_fb.c`: in no makefile, against an older
  interface. `ao_alsa.c`: off and not registered. `ad_faad.c`: uses a name that is
  declared nowhere. `vo_null.c` and `so_sdl2.c` do nothing.
- Foreign code: libavformat and libavcodec (known from how the wrappers call
  them), SDL, libcurl; `commander.c` is vendored; `dt_ini_old.c` has no caller.
- Parsing of ini files, settings by name, logging, formatting, the allocator's
  wrappers; the effect of a setting is in `PlayerOpen`.
- Failures of memory allocation and of thread creation.
- Volume, the audio filter and effects; hardware decoding on Android; the texts
  of subtitles (the parsers are empty) and their times; cover pictures.
- The peeks of `dt_queue.c` (no caller); a real stream under the cache whose seek
  fails, and seeks relative to the end.
- The ways a player's memory is used after its own loop freed it: `Player` stops
  at that point. Two players at once.
- `Player` takes the host as one value, `PacketFlow` as queues, `AvStartup` as the
  timestamps and the flag the decoders share; `HostServices` and `HostClock` open
  it up. They are not composed with each other: the product of the threads is out
  of TLC's reach, and what they share are the status words and queues whose
  behaviour each of them keeps.

## 7. What could follow

- Proofs: lemmas about one step of the AAC demuxer; a bound for `TimeIsContent` in
  terms of the thresholds.
- One model of levels, end of file and clock together, for what `eof_flag` does
  after a seek back.
