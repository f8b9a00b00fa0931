------------------------------ MODULE MediaOpen ------------------------------
(***************************************************************************)
(* Opening a file: the stream that is picked for it (dtstream.c), the       *)
(* buffer filled for the demuxers to look at and the demuxer that takes the *)
(* file (dtdemuxer.c).  Everything here runs in the application's thread,   *)
(* inside dtplayer_init.                                                    *)
(*                                                                          *)
(* A file is a number of blocks.  Streams and demuxers are global objects:  *)
(* what one session leaves in info and priv the next one finds, and the     *)
(* thread that fills a session's cache goes on after a session that nothing *)
(* closed: it reads through the global file stream, from whatever file is   *)
(* there by then.  A resource belongs to the session that acquired it; held *)
(* is a record of them that the program does not keep.                      *)
(***************************************************************************)
EXTENDS Plugins, Integers, FiniteSetsExt

CONSTANTS
  Job,           \* [file, para, ini] records the application may open
  MaxSessions,   \* bound: calls of dtplayer_init
  ReadOnce,      \* read_once
  ProbeSize,     \* PROBE_LOCAL_SIZE
  RetryFirst,    \* empty reads endured before the first block (100)
  RetryAfter,    \* and after a block (20)
  AacNeeds       \* blocks that hold the three frames the AAC demuxer wants

Stream == {"file", "cache"}

(* An AAC file has sound; an index that is -1 is none.                      *)
ASSUME MediaOpenAssumption ==
  /\ {MaxSessions, ReadOnce, ProbeSize, RetryFirst, RetryAfter, AacNeeds} \subseteq Nat \ {0}
  /\ Null \notin Stream
  /\ \A j \in Job :
       /\ {j.file.size, j.file.ast, j.file.vst, j.file.sst} \subseteq Nat
       /\ j.file.format = "aac" => j.file.ast > 0
       /\ {j.para.audio_index, j.para.video_index, j.para.sub_index} \subseteq Int
       /\ \A k \in {"audio_index", "video_index", "sub_index"} \cap DOMAIN j.ini : j.ini[k] \in Int

VARIABLES
  app,       \* where the application's thread is in dtplayer_init and dtplayer_start;
             \* "crashed" once the process has died
  session,   \* how many players have been created
  job,       \* what is being opened
  setting,   \* dtp_setting
  stream,    \* stm_ctx->stream: the stream in use, Null when there is none
  info,      \* wrapper->info of each stream: [pos, eof]
  priv,      \* whose file the wrapper's stream_priv is: a session, 0 for NULL
  ring,      \* the blocks the cache thread has put into the cache
  reading,   \* the sessions whose cache threads read
  strayed,   \* history: another session's cache thread has read from this file
  probe,     \* dem_ctx->probe_buf: the numbers of the blocks in it
  retry,     \* probing: empty reads still endured
  demuxer,   \* dem_ctx->demuxer
  held       \* <<session, resource>> pairs

openvars == <<app, session, job, setting, stream, info, priv, ring, reading, strayed, probe, retry, demuxer, held>>

OpenInit ==
  /\ PluginsInit
  /\ app = "idle"
  /\ session = 0
  /\ job \in Job
  /\ setting = Null
  /\ stream = Null
  /\ info = [s \in Stream |-> [pos |-> 0, eof |-> FALSE]]
  /\ priv = [s \in Stream |-> 0]
  /\ ring = <<>>
  /\ reading = {}
  /\ strayed = FALSE
  /\ probe = <<>>
  /\ retry = 0
  /\ demuxer = Null
  /\ held = {}

Resource == {"player", "context", "file", "cache", "probe_buf", "aac_ctx", "ffmpeg_ctx", "tracks",
             "service", "host", "io"}

(* Where the application's thread is while the session's file is open.      *)
Opened == {"probe", "seek_back", "select", "setup", "init", "inited", "host", "io", "playing", "joining"}

Hold(r) == held' = held \cup ({session} \X r)

-----------------------------------------------------------------------------
(* dt_setting.c: an entry of the ini file replaces the default.  The one    *)
(* for the subtitles is never read: player_nosub stays 0.                   *)

Default ==
  [stream_cache |-> FALSE, demuxer_probe |-> FALSE, demuxer_seek_keyframe |-> TRUE,
   audio_downmix |-> TRUE, audio_index |-> -1, video_index |-> -1, sub_index |-> -1,
   noaudio |-> FALSE, novideo |-> FALSE, nosub |-> FALSE, sync_enable |-> TRUE, seekmode |-> -1]

dt_update_setting(ini) ==
  [k \in DOMAIN Default |-> IF k \in DOMAIN ini \ {"nosub"} THEN ini[k] ELSE Default[k]]

-----------------------------------------------------------------------------
(* dtstream.c                                                               *)

get_stream_id(f) == IF f.local THEN "file" ELSE "ffmpeg"

stream_select(f) == First("stream", {p \in Plugin : Handles[p].format \in {get_stream_id(f), "ffmpeg"}})

Fresh == [pos |-> 0, eof |-> FALSE]

OpenedInfo_stale == info

(* stream_file_open and stream_cache_open reset what they report.           *)
OpenedInfo ==
  [info EXCEPT !["file"] = Fresh, !["cache"] = IF setting.stream_cache THEN Fresh ELSE @]

(* dtstream_open.  A file that cannot be opened leaves the demuxers to open *)
(* it by themselves.  The cache opens the real stream beneath it and copies *)
(* its info.                                                                *)
stream_open ==
  /\ app = "stream"
  /\ IF stream_select(job.file) = Null \/ ~job.file.readable
       THEN /\ stream' = Null
            /\ app' = "select"
            /\ UNCHANGED <<info, priv, ring, reading, held>>
       ELSE /\ stream' = IF setting.stream_cache THEN "cache" ELSE "file"
            /\ info' = OpenedInfo
            /\ priv' = [priv EXCEPT !["file"] = session,
                                    !["cache"] = IF setting.stream_cache THEN session ELSE @]
            /\ ring' = <<>>
            /\ reading' = IF setting.stream_cache THEN reading \cup {session} ELSE reading
            /\ Hold({"file"} \cup (IF setting.stream_cache THEN {"cache"} ELSE {})
                            \cup (IF setting.demuxer_probe THEN {"probe_buf"} ELSE {}))
            /\ app' = IF setting.demuxer_probe THEN "probe" ELSE "select"
  /\ probe' = <<>>
  /\ retry' = RetryFirst
  /\ UNCHANGED <<session, job, setting, strayed, demuxer, pluginvars>>

Pos == info[stream].pos

(* What stream->read hands out next: a number of blocks, 0 where the cache  *)
(* has nothing yet or nothing more, -1 at the end of a file.                *)
stream_read ==
  IF stream = "cache" THEN IF Len(ring) <= Pos THEN {0} ELSE 1..Min({ReadOnce, Len(ring) - Pos})
  ELSE IF Pos >= job.file.size THEN {-1} ELSE 1..Min({ReadOnce, job.file.size - Pos})

Block(pos) == IF stream = "cache" THEN ring[pos + 1] ELSE pos

(* stream->seek(0, SEEK_SET), within the cache or by starting it again.     *)
stream_rewind ==
  \/ info' = [info EXCEPT ![stream] = Fresh] /\ UNCHANGED <<ring, reading>>
  \/ /\ stream = "cache" /\ info' = [info EXCEPT !["cache"] = Fresh, !["file"] = Fresh]
     /\ ring' = <<>> /\ reading' = reading \cup {session}

(* stream->close: the wrapper closes whatever its stream_priv says; the     *)
(* cache stops its thread first.                                            *)
stream_close(h) == h \ {<<priv["file"], "file">>, <<session, "cache">>}

Probing == {"probe", "seek_back", "select"}

(* The thread of a cache reads ahead through the file stream until the file *)
(* has ended - the file of the session that was opened last, whichever      *)
(* session the cache is of.  Once that was closed there is none.  (Where    *)
(* it stands is followed until the demuxer is chosen.)                      *)
cache_thread ==
  /\ app # "crashed"
  /\ \E s \in reading :
       LET here == priv["file"] = session /\ app \in Probing
           more == here /\ info["file"].pos < job.file.size
       IN
       /\ app' = IF priv["file"] = 0 THEN "crashed" ELSE app
       /\ info' = IF more THEN [info EXCEPT !["file"].pos = @ + 1]
                  ELSE IF here THEN [info EXCEPT !["file"].eof = TRUE] ELSE info
       /\ ring' = IF more /\ s = session THEN Append(ring, info["file"].pos) ELSE ring
       /\ reading' = IF more \/ priv["file"] = 0 THEN reading ELSE reading \ {s}
       /\ strayed' = (strayed \/ (here /\ s # session))
  /\ UNCHANGED <<session, job, setting, stream, priv, probe, retry, demuxer, held, pluginvars>>

-----------------------------------------------------------------------------
(* dtdemuxer.c: demuxer_open                                                *)

(* dtplayer_init gives up: it frees its context and the demuxer's; a stream *)
(* or demuxer that was opened by then stays open.                           *)
GiveUp == app' = "idle" /\ held' = held \ ({session} \X {"player", "context"})

Read(n) ==
  info' = [info EXCEPT ![stream] = [pos |-> @.pos + Max({n, 0}),
                                    eof |-> @.eof \/ n < 0]]

ReadAny == probe # <<>>

Full == Len(probe) = ProbeSize

(* buf_put takes what fits.                                                 *)
buf_put(n) == probe \o [i \in 1..Min({n, ProbeSize - Len(probe)}) |-> Block(Pos + i - 1)]

probe_data ==
  /\ app = "probe"
  /\ \E n \in stream_read :
       /\ n > 0
       /\ Read(n)
       /\ retry' = RetryAfter
       /\ probe' = IF Full THEN probe ELSE buf_put(n)
       /\ app' = IF Full \/ Len(probe) + n = ProbeSize THEN "seek_back" ELSE "probe"
  /\ UNCHANGED <<session, job, setting, stream, priv, ring, reading, strayed, demuxer, held, pluginvars>>

ProbeEnds == IF ReadAny THEN app' = "seek_back" /\ UNCHANGED held ELSE GiveUp

(* An empty read costs 100 ms; too many in a row end the probe.             *)
probe_nothing ==
  /\ app = "probe"
  /\ 0 \in stream_read
  /\ retry' = retry - 1
  /\ IF retry > 1 THEN UNCHANGED <<app, held>> ELSE ProbeEnds
  /\ UNCHANGED <<session, job, setting, stream, info, priv, ring, reading, strayed, probe,
                 demuxer, pluginvars>>

probe_eof ==
  /\ app = "probe"
  /\ -1 \in stream_read
  /\ Read(-1)
  /\ ProbeEnds
  /\ UNCHANGED <<session, job, setting, stream, priv, ring, reading, strayed, probe, retry,
                 demuxer, pluginvars>>

seek_back ==
  /\ app = "seek_back"
  /\ stream_rewind
  /\ app' = "select"
  /\ UNCHANGED <<session, job, setting, stream, priv, strayed, probe, retry, demuxer, held,
                 pluginvars>>

(* The probes of the demuxers: FFmpeg's takes anything.                     *)
Likes(p) ==
  CASE Handles[p].format = "aac" -> job.file.format = "aac" /\ Len(probe) >= AacNeeds
    [] OTHER -> TRUE

demuxer_select ==
  /\ app = "select"
  /\ demuxer' = First("demuxer", {p \in Plugin : KindOf(p) = "demuxer" /\ Likes(p)})
  /\ IF demuxer' = Null THEN GiveUp ELSE app' = "setup" /\ UNCHANGED held
  /\ UNCHANGED <<session, job, setting, stream, info, priv, ring, reading, strayed, probe, retry,
                 pluginvars>>

(* The AAC demuxer knows one track of sound.  FFmpeg's lists the tracks of  *)
(* the file, but not the picture that comes with an MP3 file.               *)
demuxer_aac_setup_info == [ast |-> 1, vst |-> 0, sst |-> 0]

demuxer_ffmpeg_setup_info ==
  [ast |-> job.file.ast, vst |-> IF job.file.format = "mp3" THEN 0 ELSE job.file.vst,
   sst |-> job.file.sst]

media_info ==
  IF Handles[demuxer].format = "aac" THEN demuxer_aac_setup_info ELSE demuxer_ffmpeg_setup_info

(* FFmpeg makes nothing of some files.  It reads through the stream, or     *)
(* opens the file by itself when there is none.                             *)
demuxer_ffmpeg_opens == job.file.format # "none"

(* A demuxer reads what it needs, maybe all there is.                       *)
DemuxerReads ==
  \/ UNCHANGED info
  \/ /\ stream # Null
     /\ info' = [info EXCEPT ![stream] = [pos |-> job.file.size, eof |-> TRUE]]

(* What wrapper->open allocates and keeps in the wrapper's demuxer_priv.    *)
Context == IF Handles[demuxer].format = "aac" THEN "aac_ctx" ELSE "ffmpeg_ctx"

(* wrapper->open and wrapper->setup_info.  What FFmpeg's had allocated when *)
(* it failed it leaves.                                                     *)
demuxer_open ==
  /\ app = "setup"
  /\ DemuxerReads
  /\ IF Handles[demuxer].format = Any /\ ~demuxer_ffmpeg_opens
       THEN /\ app' = "idle"
            /\ held' = (held \cup {<<session, Context>>}) \ ({session} \X {"player", "context"})
       ELSE app' = "init" /\ Hold({Context, "tracks"})
  /\ UNCHANGED <<session, job, setting, stream, priv, ring, reading, strayed, probe, retry, demuxer, pluginvars>>

(* demuxer_close: the AAC demuxer's close does nothing, and dtdemuxer_close *)
(* does not free the context.                                               *)
demuxer_close_only ==
  held \ ({session} \X {"ffmpeg_ctx", "tracks", "probe_buf"})

demuxer_close ==
  LET h == held \ ({session} \X {"ffmpeg_ctx", "tracks", "probe_buf"})
  IN IF stream = Null THEN h ELSE stream_close(h)

=============================================================================
