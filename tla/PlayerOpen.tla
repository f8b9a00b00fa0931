----------------------------- MODULE PlayerOpen -----------------------------
(***************************************************************************)
(* A player from dtplayer_init to its end: what player_init makes of the    *)
(* file, the ini file and the application's parameters, how player_prepare  *)
(* builds the host, the packets that go to it, and the end of the event     *)
(* loop, which closes everything and drops the lists of plugins.  Sessions  *)
(* follow one another; MediaOpen has the opening of the file.               *)
(***************************************************************************)
EXTENDS MediaOpen, Functions

CONSTANT External   \* plugins the application may register

ASSUME PlayerOpenAssumption ==
  /\ External \subseteq Plugin
  /\ \A p \in External : KindOf(p) \in {"ao", "vo", "so", "vf", "vd"} /\ ~IsInternal(p)

VARIABLES
  ctrl,     \* ctrl_info, with the chosen tracks of media_info
  host,     \* the parameters dthost_init was given and the plugins it chose
  loop,     \* the event loop: "none" or "running"
  leaving,  \* event loops whose status is EXIT and whose last act is to come
  frame,    \* the packet last read: its type for the host and its track
  ended,    \* history: the sessions that played and came to their end
  hasty,    \* history: a player was opened while an event loop was leaving
  doubled   \* history: a plugin was registered again that nothing looks for

playeropenvars == <<ctrl, host, loop, leaving, frame, ended, hasty, doubled>>
history == <<ended, hasty, doubled>>
vars == <<openvars, pluginvars, playeropenvars>>

Init ==
  /\ OpenInit
  /\ ctrl = Null
  /\ host = Null
  /\ loop = "none"
  /\ leaving = 0
  /\ frame = Null
  /\ ended = {} /\ hasty = FALSE /\ doubled = FALSE

-----------------------------------------------------------------------------
(* dtplayer_api.c: dtplayer_init.  The application may have gone by the     *)
(* status EXIT: of a player that ends by itself it can join nothing.        *)

dtplayer_init ==
  /\ app = "idle"
  /\ session < MaxSessions
  /\ loop # "running"
  /\ player_register_all
  /\ session' = session + 1
  /\ job' \in Job
  /\ setting' = dt_update_setting(job'.ini)
  /\ app' = "stream"
  /\ held' = held \cup ({session'} \X {"player", "context"})
  /\ strayed' = FALSE
  /\ ctrl' = Null
  /\ frame' = Null
  /\ hasty' = (hasty \/ leaving > 0)
  /\ UNCHANGED <<stream, info, priv, ring, reading, probe, retry, demuxer, host, loop, leaving,
                 ended, doubled>>

(* A plugin is registered before a player is opened or before it is started.*)
register_plugin ==
  /\ app \in {"idle", "inited"}
  /\ loop # "running"
  /\ \E p \in External :
       /\ dtplayer_register_plugin(p)
       /\ doubled' = (doubled \/ (KindOf(p) # "vd" /\ p \in Listed(KindOf(p))))
  /\ UNCHANGED <<openvars, ctrl, host, loop, leaving, frame, ended, hasty>>

open_file ==
  /\ \/ stream_open \/ probe_data \/ probe_nothing \/ probe_eof
     \/ seek_back \/ demuxer_select \/ demuxer_open
  /\ UNCHANGED playeropenvars

cache == cache_thread /\ UNCHANGED playeropenvars

-----------------------------------------------------------------------------
(* player_init                                                              *)

Keep == UNCHANGED <<session, job, setting, stream, info, priv, ring, reading, strayed, probe,
                    retry, demuxer, pluginvars>>

(* The parameter, or else the ini file, or else the first track; a number   *)
(* the file does not reach becomes the first, a negative one stays.         *)
Chosen_off_by_one(wanted, ini, num) ==
  LET i == IF wanted # -1 THEN wanted ELSE IF ini # -1 THEN ini ELSE 0
  IN IF i > num THEN 0 ELSE i

Chosen(wanted, ini, num) ==
  LET i == IF wanted # -1 THEN wanted ELSE IF ini # -1 THEN ini ELSE 0
  IN IF i >= num THEN 0 ELSE i

Ctrl ==
  LET f == media_info
      p == job.para
  IN [audio |-> f.ast > 0 /\ ~setting.noaudio /\ ~p.disable_audio,
      video |-> f.vst > 0 /\ ~setting.novideo /\ ~p.disable_video,
      sub |-> f.sst > 0 /\ ~setting.nosub /\ ~p.disable_sub,
      sync_enable |-> setting.sync_enable /\ f.ast > 0 /\ f.vst > 0 /\ ~p.disable_avsync,
      ast |-> Chosen(p.audio_index, setting.audio_index, f.ast),
      vst |-> Chosen(p.video_index, setting.video_index, f.vst),
      sst |-> Chosen(p.sub_index, setting.sub_index, f.sst),
      disable_hw_vcodec |-> p.disable_hw_vcodec]

(* Without sound and picture the player is given up, but not the demuxer    *)
(* and its file.                                                            *)
player_init ==
  /\ app = "init"
  /\ ctrl' = Ctrl
  /\ IF ctrl'.audio \/ ctrl'.video THEN app' = "inited" /\ UNCHANGED held
     ELSE app' = "idle" /\ held' = held \ {<<session, "player">>}
  /\ Keep /\ UNCHANGED <<host, loop, leaving, frame, history>>

(* An application that only wanted the media info has nothing to call that  *)
(* would close the player.                                                  *)
info_only ==
  /\ app = "inited"
  /\ app' = "idle"
  /\ Keep /\ UNCHANGED <<held, playeropenvars>>

-----------------------------------------------------------------------------
(* player_prepare                                                           *)

player_service_init ==
  /\ app = "inited"
  /\ app' = "host"
  /\ Hold({"service"})
  /\ loop' = "running"
  /\ Keep /\ UNCHANGED <<ctrl, host, leaving, frame, history>>

(* player_host_init and the choices of plugins in dthost_init.  The host    *)
(* keeps sound and picture in step only if it has both.                     *)
HostPara ==
  [has_audio |-> ctrl.audio, has_video |-> ctrl.video, has_sub |-> ctrl.sub,
   sync_enable |-> ctrl.audio /\ ctrl.video /\ ctrl.sync_enable,
   dst_channels |-> IF setting.audio_downmix THEN Min({2, job.file.channels}) ELSE 0,
   vd |-> IF ctrl.video THEN select_video_decoder(job.file.vfmt, ctrl.disable_hw_vcodec) ELSE Null,
   ad |-> IF ctrl.audio THEN select_audio_decoder(job.file.afmt) ELSE Null,
   sd |-> IF ctrl.sub THEN select_sub_decoder(job.file.sfmt) ELSE Null,
   vo |-> IF ctrl.video THEN select_vo_device ELSE Null,
   so |-> IF ctrl.sub THEN select_so_device ELSE Null,
   vf |-> IF ctrl.video THEN select_vf(job.file.vfmt) ELSE Null,
   ao |-> IF ctrl.audio THEN select_ao_device ELSE Null]

player_host_init ==
  /\ app = "host"
  /\ ctrl.video => Found("vf", OfFormat(job.file.vfmt))
  /\ host' = HostPara
  /\ host'.has_audio => host'.ad # Null
  /\ host'.has_video => host'.vd # Null /\ host'.vo # Null
  /\ Hold({"host"})
  /\ app' = "io"
  /\ Keep /\ UNCHANGED <<ctrl, loop, leaving, frame, history>>

(* The track of a negative number is read from in front of the array: the   *)
(* process dies of the pointer it finds there, or goes on with it.          *)
host_reads_outside ==
  /\ app = "host"
  /\ \/ ctrl.audio /\ ctrl.ast < 0
     \/ ctrl.video /\ ctrl.vst < 0
     \/ ctrl.sub /\ ctrl.sst < 0
  /\ app' = "crashed"
  /\ Keep /\ UNCHANGED <<held, playeropenvars>>

(* The host cannot be built: the application joins an event loop that       *)
(* nothing tells to stop.                                                   *)
prepare_fails ==
  /\ app = "host"
  /\ app' = "joining"
  /\ Keep /\ UNCHANGED <<held, playeropenvars>>

start_io_thread ==
  /\ app = "io"
  /\ app' = "playing"
  /\ Hold({"io"})
  /\ Keep /\ UNCHANGED <<ctrl, host, loop, leaving, frame, history>>

-----------------------------------------------------------------------------
(* Playing                                                                  *)

(* The demuxer reads a packet of a track; packets of tracks that are not    *)
(* played are read past.                                                    *)
TypeOf(t) ==
  CASE t = <<"video", ctrl.vst>> /\ ctrl.video -> "video"
    [] t = <<"audio", ctrl.ast>> /\ ctrl.audio -> "audio"
    [] t = <<"sub", ctrl.sst>> /\ ctrl.sub -> "sub"
    [] OTHER -> "unknown"

Track ==
  ({"video"} \X (0..job.file.vst - 1)) \cup ({"audio"} \X (0..job.file.ast - 1))
    \cup ({"sub"} \X (0..job.file.sst - 1))

demuxer_read_frame ==
  /\ app = "playing"
  /\ loop = "running"
  /\ \E t \in Track :
       frame' = IF TypeOf(t) = "unknown" THEN frame ELSE [type |-> TypeOf(t), track |-> t]
  /\ DemuxerReads
  /\ UNCHANGED <<app, session, job, setting, stream, priv, ring, reading, strayed, probe, retry,
                 demuxer, held, pluginvars, ctrl, host, loop, leaving, history>>

(* The event loop ends, told to stop or at the end of the file: IO thread,  *)
(* host, demuxer, stream and service are closed, then the status is EXIT.   *)
quit ==
  /\ app = "playing"
  /\ loop = "running"
  /\ loop' = "none"
  /\ leaving' = leaving + 1
  /\ held' = demuxer_close \ ({session} \X {"io", "host", "service", "player"})
  /\ priv' = [s \in Stream |-> IF stream # Null /\ s = "file" THEN 0 ELSE priv[s]]
  /\ reading' = reading \ {session}
  /\ stream' = Null
  /\ host' = Null
  /\ ended' = ended \cup {session}
  /\ app' = "idle"
  /\ UNCHANGED <<session, job, setting, info, ring, strayed, probe, retry, demuxer, pluginvars,
                 ctrl, frame, hasty, doubled>>

(* Its last act, after the application has seen EXIT.                       *)
quit_remove ==
  /\ app # "crashed"
  /\ leaving > 0
  /\ leaving' = leaving - 1
  /\ player_remove_all
  /\ UNCHANGED <<openvars, ctrl, host, loop, frame, history>>

-----------------------------------------------------------------------------
Next ==
  \/ dtplayer_init \/ register_plugin \/ open_file \/ cache
  \/ player_init \/ info_only
  \/ player_service_init \/ player_host_init \/ host_reads_outside \/ prepare_fails \/ start_io_thread
  \/ demuxer_read_frame \/ quit \/ quit_remove

Spec == Init /\ [][Next]_vars

-----------------------------------------------------------------------------
TypeOK ==
  /\ app \in {"idle", "stream", "probe", "seek_back", "select", "setup", "init", "inited",
              "host", "io", "playing", "joining", "crashed"}
  /\ session \in 0..MaxSessions
  /\ stream \in Stream \cup {Null}
  /\ loop \in {"none", "running"} /\ leaving \in 0..MaxSessions
  /\ demuxer \in Plugin \cup {Null}
  /\ reading \subseteq 1..MaxSessions
  /\ held \subseteq ((1..MaxSessions) \X Resource)

(* A demuxer is chosen by the head of the file and then reads the file from *)
(* its head: whatever the sizes of the reads and wherever the probe was cut *)
(* short, probe_buf holds the first blocks in order, and the stream is back *)
(* at 0 and not at its end, whatever earlier sessions left in the global    *)
(* streams (dtdemuxer.c:231-286, dtstream.c:79-106) - unless the cache      *)
(* thread of a session that was never closed has read from this file.       *)
AtHead ==
  /\ \A i \in DOMAIN probe : probe[i] = i - 1
  /\ stream # Null => Pos = 0 /\ ~info[stream].eof

ProbeIsHead == app = "select" /\ ~strayed => AtHead

(* dtdemuxer.c:284-285: the stream was sought back to where it was.         *)
ProbeGoesBack == app = "select" => AtHead

(* The application asked for a track by a number below 0 (not -1).          *)
Below(t, wanted, ini) == t < 0 /\ t \in {wanted, ini}

(* The ini file as it is, and not as the program reads it.                  *)
Says(key) == key \in DOMAIN job.ini /\ job.ini[key]

(* What is played is in the file and was not ruled out: the host is only    *)
(* given tracks the file has (or, when the application asked for one by a   *)
(* negative number, that number), packets go to it only from the chosen     *)
(* tracks, a hardware decoder is not used against the application's will,   *)
(* and sound and picture are only held to each other when both are played   *)
(* (dtplayer.c:88-249, dtplayer_host.c:18-175, demuxer_ffmpeg.c:276-329).   *)
(* What the ini file says of subtitles is not asked: it is never read.      *)
PlaysWhatWasChosen ==
  LET p == job.para
  IN
  app \in {"io", "playing"} =>
    /\ ctrl.audio => /\ ~p.disable_audio /\ ~Says("noaudio")
                     /\ \/ ctrl.ast \in 0..(job.file.ast - 1)
                        \/ Below(ctrl.ast, p.audio_index, setting.audio_index)
    /\ ctrl.video => /\ ~p.disable_video /\ ~Says("novideo")
                     /\ \/ ctrl.vst \in 0..(job.file.vst - 1)
                        \/ Below(ctrl.vst, p.video_index, setting.video_index)
    /\ ctrl.sub => /\ ~p.disable_sub
                   /\ \/ ctrl.sst \in 0..(job.file.sst - 1)
                      \/ Below(ctrl.sst, p.sub_index, setting.sub_index)
    /\ host.sync_enable => host.has_audio /\ host.has_video
    /\ host.vd # Null /\ p.disable_hw_vcodec => ~Handles[host.vd].hw
    /\ frame # Null => frame.track = [audio |-> <<"audio", ctrl.ast>>,
                                      video |-> <<"video", ctrl.vst>>,
                                      sub |-> <<"sub", ctrl.sst>>][frame.type]

(* etc/sys_set.ini:40: player.nosub, beside noaudio and novideo, rules the  *)
(* subtitles out.                                                           *)
SubtitlesRuledOut == app \in {"io", "playing"} /\ Says("nosub") => ~ctrl.sub

(* dtplayer.c:201-217: an index that is not valid is reset to 0.            *)
IndexIsReset ==
  app \in {"host", "io", "playing"} =>
    /\ ctrl.audio => ctrl.ast \in 0..(job.file.ast - 1)
    /\ ctrl.video => ctrl.vst \in 0..(job.file.vst - 1)
    /\ ctrl.sub => ctrl.sst \in 0..(job.file.sst - 1)

(* A player that has played to its end leaves no file, thread or buffer     *)
(* open, though streams and demuxers are shared with the sessions before    *)
(* it, and some of those were given up with their files open: all that      *)
(* stays is the demuxer's context and what the AAC demuxer allocated        *)
(* (dtplayer.c:765-784).  A session that was given up or only asked for its *)
(* media info leaves what opening acquired, never a service, a host or an   *)
(* IO thread; and the file the current session reads is its own and open.   *)
NothingLeftOpen ==
  /\ \A h \in held :
       /\ h[1] \in ended => h[2] \in {"context", "aac_ctx"}
       /\ h[2] \in {"service", "host", "io"} => h[1] = session
  /\ app \in Opened /\ stream # Null =>
       priv["file"] = session /\ <<session, "file">> \in held

(* The application got its media info and never started the player.         *)
Asked == ctrl # Null /\ (ctrl.audio \/ ctrl.video) /\ session \notin ended

(* dtplayer_api.c:71-74: an application may just want the media info; the   *)
(* file it asked about is closed when it is done with the player.           *)
InfoLeavesNoFile == app = "idle" /\ Asked => <<session, "file">> \notin held

(* The built-in plugins are in their lists while a player exists.           *)
Present == app \notin {"idle", "crashed"} => \A k \in Kind : Range(Internal[k]) \subseteq Listed(k)

(* The lists stay usable: every one of them ends, so that looking for a     *)
(* plugin returns, unless the application registered one twice of a kind    *)
(* that does not look for that; and while a player exists the built-in      *)
(* plugins are in them, unless it was opened, or one before it, between the *)
(* EXIT of a player and the removal that follows it                         *)
(* (dtdemuxer.c:18-70, dtvideo_decoder.c:36-114, dtplayer.c:27-49, 778-781). *)
PluginsStay == ~doubled => /\ \A k \in Kind : Ends(k)
                           /\ ~hasty => Present

(* dtplayer_api.c:111-116: a player has exited when update_cb was given its *)
(* status; the next one can be opened.                                      *)
NextFindsPlugins == ~doubled => Present

=============================================================================
