------------------------------ MODULE HostClock ------------------------------
(* The clock of dthost, which keeps picture and sound together.             *)
(*                                                                          *)
(* The audio output thread reports what is audible (host_update_apts), the  *)
(* video output thread compares the system time with the next picture       *)
(* (video_output_thread) and reports what it has shown (host_update_vpts);  *)
(* each may correct the system time.  The player's event loop reads all of  *)
(* it to work out the time it reports (calc_cur_time).                      *)
(*                                                                          *)
(* Times are ticks; FreqMs of them are a millisecond, and the code compares *)
(* some differences in ticks and some in milliseconds, which is kept.  A    *)
(* tick is also the pace of the model: the output threads and the event     *)
(* loop come round in every tick (they sleep 10 ms, the loop 100 ms).  The  *)
(* streams are continuous content whose time stamps begin at First and jump *)
(* at the content position Cut, in both streams by as much.                 *)
EXTENDS Integers, Sequences

CONSTANTS FreqMs,       \* DT_PTS_FREQ_MS
          Threshold,    \* AVSYNC_THRESHOLD, ms
          ThresholdMax, \* AVSYNC_THRESHOLD_MAX, ms
          Discontinue,  \* DT_SYNC_DISCONTINUE_THRESHOLD, taken as ticks or ms
          MaxAge,       \* bound: after that long every picture is due
          Content,       \* bound: the content ends here
          First,        \* the first time stamp
          Interval,     \* from one picture to the next
          Cut,          \* where the time stamps jump
          Jumps,        \* by how much they may
          Far           \* bound: a time reported beyond it is all the same

ASSUME ClockAssumption ==
  /\ {FreqMs, Threshold, ThresholdMax, Discontinue} \subseteq Nat \ {0}
  /\ {Content, Interval, First} \subseteq Nat \ {0} /\ MaxAge \in Nat
  /\ Cut \in 0..Content /\ Jumps \subseteq Int /\ Far \in Nat
  /\ \A jump \in Jumps : First + Cut + jump > 0 /\ MaxAge > Content + jump

NoPts == -1   \* -1 and DT_NOPTS_VALUE

VARIABLES
  host,         \* the clock's fields of the host's context
  file,         \* has_audio, has_video, the jump
  playing,      \* the outputs run (FALSE: paused)
  audible,      \* the content position that is heard
  picture,      \* the content position of the next picture
  vctx,         \* current_pts and last_valid_pts of the video context
  vo,           \* video_output_thread: where it is, and its copy of the clock
  led,          \* history: the sound has checked the clock, and nobody set it since
  turn,         \* which threads came round in this tick
  ctl           \* the player's first_time, discontinue_point and cur_time, and
                \* history: whether streams that were apart have both jumped
clock_vars == <<host, file, playing, audible, picture, vctx, vo, led, turn, ctl>>

Abs(x) == IF x < 0 THEN -x ELSE x
Pts(position) == First + position + (IF position < Cut THEN 0 ELSE file.jump)

-----------------------------------------------------------------------------
(* The host's functions, as functions of its context                        *)

host_init(audio, video) ==
  [apts |-> NoPts, vpts |-> NoPts, start |-> NoPts, current |-> NoPts, age |-> 0,
   mode |-> "AUDIO_MASTER", enable |-> audio /\ video,
   aflag |-> FALSE, apoint |-> NoPts, vflag |-> FALSE, vpoint |-> NoPts]

\* mutant: the clock's origin in real time is kept
host_reset_systime_keeps_origin(h, time) == [h EXCEPT !.start = time, !.current = time]

host_reset_systime(h, time) == [h EXCEPT !.start = time, !.current = time, !.age = 0]

\* mutant: a clock that is set is left alone
host_update_systime_first(h, time) == IF h.current = NoPts THEN host_reset_systime(h, time) ELSE h

host_update_systime(h, time) ==
  IF h.current = NoPts THEN host_reset_systime(h, time)
                       ELSE [h EXCEPT !.current = h.start + h.age]

\* Both in milliseconds, and both truncated.
AvDiff(h) == Abs(h.apts - h.vpts) \div FreqMs
Apart(h) == AvDiff(h) > ThresholdMax
Jumped(from, to) == Abs(to - from) \div FreqMs >= Discontinue

\* mutant: sync that was given up is never taken up again
MasterStays(h) == h

\* The streams are together again: audio leads.
Master(h) == IF h.mode = "VIDEO_MASTER" /\ AvDiff(h) < ThresholdMax
             THEN [h EXCEPT !.mode = "AUDIO_MASTER"] ELSE h

NoteApts(h, apts) ==
  LET jump == Jumped(h.apts, apts)
  IN  [h EXCEPT !.apts = apts, !.aflag = @ \/ jump, !.apoint = IF jump THEN apts ELSE @]

\* With the time stamp noted: no video, and the sound is the clock; sync off,
\* the sound over or no clock yet, and nothing happens; the streams too far
\* apart, and sync is given up; else the clock is corrected when it is off.
host_update_apts(h, apts, closed, has_video) ==
  LET n == NoteApts(h, apts)
  IN  CASE ~has_video -> [n EXCEPT !.current = apts, !.start = IF @ = NoPts THEN apts ELSE @]
        [] has_video /\ (~n.enable \/ closed \/ n.current = NoPts) -> n
        [] has_video /\ n.enable /\ ~closed /\ n.current # NoPts ->
             IF Apart(n) THEN [n EXCEPT !.mode = "VIDEO_MASTER"]
             ELSE IF Abs(apts - n.current) \div FreqMs < Threshold THEN Master(n)
             ELSE host_reset_systime(Master(n), apts)

NoteVpts(h, vpts) ==
  LET jump == Jumped(h.vpts, vpts)
  IN  [h EXCEPT !.vpts = vpts, !.vflag = @ \/ jump, !.vpoint = IF jump THEN vpts ELSE @]

\* Here the clock's error is in ticks, and compared with milliseconds.
host_update_vpts(h, vpts) ==
  LET n == NoteVpts(h, vpts)
      corrected == IF Abs(n.current - vpts) > Threshold THEN host_reset_systime(n, vpts) ELSE n
  IN  CASE n.current = NoPts -> n
        [] n.current # NoPts /\ ~n.enable -> corrected
        [] n.current # NoPts /\ n.enable ->
             IF Apart(n) THEN [corrected EXCEPT !.mode = "VIDEO_MASTER"]
             ELSE Master(n)

host_clear_discontinue_flag(h) == [h EXCEPT !.aflag = FALSE, !.vflag = FALSE]

host_resume(h, has_video) == host_reset_systime(h, IF has_video THEN h.vpts ELSE h.apts)

-----------------------------------------------------------------------------
(* The threads.  The decoders have set the first time stamps before anything *)
(* reaches an output.                                                       *)

SoundOver == audible >= Content
PicturesOver == picture >= Content
\* The sound leads, and the clock is its own.
Led == host.enable /\ host.mode = "AUDIO_MASTER" /\ ~SoundOver /\ led

Top == [pc |-> "top", clock |-> NoPts, led |-> NoPts]

ClockInit ==
  /\ file \in [audio : BOOLEAN, video : BOOLEAN, jump : Jumps] /\ (file.audio \/ file.video)
  /\ audible = IF file.audio THEN 0 ELSE Content
  /\ picture = IF file.video THEN 0 ELSE Content
  /\ host = [host_init(file.audio, file.video) EXCEPT
               !.apts = IF file.audio THEN Pts(0) ELSE NoPts,
               !.vpts = IF file.video THEN Pts(0) ELSE NoPts]
  /\ playing = TRUE
  /\ vctx = [current |-> NoPts, last |-> NoPts]
  /\ vo = Top /\ led = FALSE
  /\ turn = {}
  /\ ctl = [first |-> Pts(0), point |-> 0, cur |-> 0, strayed |-> FALSE]

\* The output thread reports what is heard, in each round of its loop.
audio_update_pts ==
  /\ playing /\ file.audio /\ "audio" \notin turn
  /\ host' = host_update_apts(host, Pts(audible), SoundOver, file.video)
  /\ led' = (host.enable /\ ~SoundOver /\ host.current # NoPts /\ ~Apart(host'))
  /\ turn' = turn \cup {"audio"}
  /\ UNCHANGED <<file, playing, audible, picture, vctx, vo, ctl>>

\* The picture at the head of the queue; the clock is read, set if nobody did,
\* and moved on.  What was read is what the picture is compared with.
video_pre_read ==
  /\ playing /\ vo.pc = "top" /\ ~PicturesOver
  /\ LET clock == IF host.current = NoPts THEN Pts(picture) ELSE host.current
     IN  /\ vo' = [pc |-> "show", clock |-> clock, led |-> IF Led THEN host.apts ELSE NoPts]
         /\ host' = host_update_systime(host_update_systime(host, clock), clock)
  /\ UNCHANGED <<file, playing, audible, picture, vctx, led, turn, ctl>>

\* The step from the picture before the last to this one, in ticks.
Discontinuous == vctx.last # NoPts /\ Abs(Pts(picture) - vctx.last) >= Discontinue

\* Not yet: the thread sleeps.
video_wait ==
  /\ vo.pc = "show" /\ ~Discontinuous /\ vo.clock < Pts(picture)
  /\ vo' = Top /\ turn' = turn \cup {"video"}
  /\ UNCHANGED <<host, file, playing, audible, picture, vctx, led, ctl>>

\* The picture is taken and reported to the host, whether it is shown or, the
\* next one being due as well, dropped.
video_show ==
  /\ vo.pc = "show" /\ (Discontinuous \/ vo.clock >= Pts(picture))
  /\ vctx' = [current |-> Pts(picture),
              last |-> IF vctx.last = NoPts \/ Discontinuous THEN Pts(picture) ELSE vctx.current]
  /\ host' = host_update_vpts(host, Pts(picture))
  /\ led' = (led /\ ~Apart(host'))
  /\ picture' = picture + Interval
  /\ vo' = Top /\ turn' = turn \cup {"video"}
  /\ UNCHANGED <<file, playing, audible, ctl>>

video_output_thread == video_pre_read \/ video_wait \/ video_show

host_pause ==
  /\ playing /\ playing' = FALSE
  /\ UNCHANGED <<host, file, audible, picture, vctx, vo, led, turn, ctl>>

host_resume_all ==
  /\ ~playing /\ playing' = TRUE
  /\ host' = host_resume(host, file.video) /\ led' = FALSE
  /\ UNCHANGED <<file, audible, picture, vctx, vo, turn, ctl>>

\* Real time goes on, and the sound with it unless it is held up.  A clock that
\* nobody has set does not run.
Due == {"control"} \cup (IF file.audio THEN {"audio"} ELSE {})
                   \cup (IF PicturesOver THEN {} ELSE {"video"})
Age == CASE host.start = NoPts -> 0
         [] host.start # NoPts /\ host.age < MaxAge -> host.age + 1
         [] host.age = MaxAge -> MaxAge
tick(heard) ==
  /\ IF playing THEN Due \subseteq turn ELSE "control" \in turn
  /\ heard => playing /\ ~SoundOver
  /\ audible' = IF heard THEN audible + 1 ELSE audible
  /\ host' = [host EXCEPT !.age = Age]
  /\ turn' = {}
  /\ UNCHANGED <<file, playing, picture, vctx, vo, led, ctl>>

-----------------------------------------------------------------------------
(* calc_cur_time, in the player's event loop                                *)

\* The time reported is the content position when both streams are there.
Both == file.audio /\ file.video
Near == Abs(host.apts - host.vpts) \div FreqMs < ThresholdMax
\* mutant: the time stamps are counted from the file's first one for good
FirstPoint(point) == ctl.first

Point(point) == IF point > 0 THEN point ELSE ctl.first

Within(time) == IF time > Far THEN Far ELSE IF time < -Far THEN -Far ELSE time

calc_cur_time ==
  /\ "control" \notin turn /\ turn' = turn \cup {"control"}
  /\ LET both == host.aflag /\ host.vflag
         point == IF Both /\ both THEN ctl.cur ELSE ctl.point
         time == CASE ~Both -> host.current
                   [] Both /\ host.vflag /\ ~host.aflag -> host.apts
                   [] Both /\ (host.aflag \/ ~host.vflag) -> host.vpts
         start == CASE ~Both -> host.start
                    [] Both /\ host.aflag /\ ~host.vflag -> Point(host.vpoint)
                    [] Both /\ (~host.aflag \/ host.vflag) -> Point(host.apoint)
     IN  ctl' = [ctl EXCEPT !.point = Within(point), !.cur = Within(time + point - start),
                            !.strayed = @ \/ (Both /\ both /\ ~Near)]
  /\ host' = IF Both /\ (host.aflag \/ host.vflag) /\ Near
             THEN host_clear_discontinue_flag(host) ELSE host
  /\ UNCHANGED <<file, playing, audible, picture, vctx, vo, led>>

ClockNext ==
  \/ audio_update_pts \/ video_output_thread \/ calc_cur_time
  \/ host_pause \/ host_resume_all \/ \E heard \in BOOLEAN : tick(heard)

\* Each thread keeps coming round; the device plays while it is not paused.
ClockSpec ==
  /\ ClockInit /\ [][ClockNext]_clock_vars
  /\ WF_clock_vars(audio_update_pts) /\ WF_clock_vars(video_output_thread)
  /\ WF_clock_vars(calc_cur_time)
  /\ SF_clock_vars(tick(TRUE)) /\ WF_clock_vars(tick(FALSE))

-----------------------------------------------------------------------------
(* Properties                                                               *)

ClockTypeOK ==
  /\ host \in [apts : Int, vpts : Int, start : Int, current : Int, age : 0..MaxAge,
               mode : {"AUDIO_MASTER", "VIDEO_MASTER"}, enable : BOOLEAN,
               aflag : BOOLEAN, apoint : Int, vflag : BOOLEAN, vpoint : Int]
  /\ file \in [audio : BOOLEAN, video : BOOLEAN, jump : Jumps]
  /\ playing \in BOOLEAN /\ audible \in Nat /\ picture \in Nat
  /\ vctx \in [current : Int, last : Int]
  /\ vo \in [pc : {"top", "show"}, clock : Int, led : Int]
  /\ led \in BOOLEAN /\ turn \subseteq {"audio", "video", "control"}
  /\ ctl \in [first : Int, point : Int, cur : Int, strayed : BOOLEAN]

\* While the sound leads and the clock is its own, no picture is taken (unless
\* it is past a jump) whose time stamp is ahead of what was audible by more than
\* the threshold and a round of the threads: the thread compares with a clock
\* it has read before, which real time moves.  When a picture gives the lead
\* back to the sound, the clock is the picture's until the sound comes round.
NotAhead ==
  [][(picture' # picture /\ vo.led # NoPts /\ ~Discontinuous)
       => Pts(picture) - vo.led <= Threshold * FreqMs + 2]_clock_vars

\* The picture does not freeze: whatever the jump and however often the sound
\* was held up, in the end all the pictures are taken (video_output_thread).
PicturesEnd == (<>[]playing) => <>PicturesOver

\* Once the picture is back within the limit of the sound, the sound leads
\* again, or they part again or end (host_update_apts, host_update_vpts).
Together == file.audio /\ file.video /\ AvDiff(host) < ThresholdMax /\ ~SoundOver
SyncRestored ==
  (host.mode = "VIDEO_MASTER" /\ Together) ~> (host.mode = "AUDIO_MASTER" \/ ~Together)

\* The time reported for a file with both streams is the place in the content,
\* across a jump of the time stamps (calc_cur_time, the two discontinuity flags
\* and points), unless both have jumped while they were apart: then the time
\* reported is added to itself in each round.  A jump too small to be one goes
\* through to the time.
Slack == 3 * Interval + (IF Jumped(0, file.jump) THEN 0 ELSE Abs(file.jump))
TimeIsContent ==
  [][(ctl' # ctl /\ Both /\ ~ctl'.strayed) =>
       \/ Abs(ctl'.cur - audible) <= Slack \/ Abs(ctl'.cur - picture) <= Slack]_clock_vars
=============================================================================
