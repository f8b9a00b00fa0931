----------------------------- MODULE StreamCache -----------------------------
(***************************************************************************)
(* stream_cache.c: a thread reads a file or a network source ahead into a   *)
(* ring, and the demuxer reads and seeks in the ring.  Bytes already read   *)
(* stay in the ring for a while, from pre_rp to rp, so that a short seek    *)
(* back needs no seek of the source.  A byte is the offset it has in the    *)
(* source; rp, wp and pre_rp may stand on CacheSize as well as on 0, the same    *)
(* place.                                                                   *)
(*                                                                          *)
(* The functions on the ring hold its mutex and are one action each.  The   *)
(* thread looks at cache_flag, at cache_status and at the free space        *)
(* without it; Prompt is the assumption that it is not held up between one  *)
(* of these looks and the statement that follows while the demuxer goes on. *)
(* A read of the source may take any time.                                  *)
(*                                                                          *)
(* stream_cache_read returns 0 for an empty ring before it looks at         *)
(* cache_flag, so info.eof_flag, which only the lines after that set, stays *)
(* 0 and is left out.                                                       *)
(***************************************************************************)
EXTENDS Integers, Sequences

CONSTANTS
  Length,       \* bytes of the source
  CacheSize,    \* total_size, dtp_setting.stream_cache_size
  FixPre,       \* fix_pre_size, a fifth of the size
  ReadPerTime,  \* READ_PER_TIME
  MaxRead,      \* bound: the largest read of the demuxer
  IntMax,       \* 2^31, the first number that is too large for an int
  MaxCacheSeeks,  \* bound: seeks of the demuxer
  Prompt

ASSUME StreamCacheAssumption ==
  /\ Length \in Nat
  /\ {CacheSize, ReadPerTime, MaxRead} \subseteq Nat \ {0}
  /\ {FixPre, MaxCacheSeeks} \subseteq Nat
  /\ ReadPerTime + FixPre <= CacheSize
  /\ IntMax \in Nat /\ CacheSize < IntMax
  /\ Prompt \in BOOLEAN

VARIABLES
  data, level, pre_size, pre_rp, rp, wp,  \* stream_cache_t
  cache_flag,    \* "NULL", "PAUSE" or "EOF"
  cache_status,  \* "IDLE", "PAUSED", "RUNNING" or "QUIT"
  fpc,           \* where cache_thread stands
  tmp_buf,       \* the bytes it has read and not yet written, rlen of them
  real_pos,      \* the position of the real stream
  rpc,           \* where the demuxer's thread stands
  cur_pos,       \* info.cur_pos of the cached stream
  goal,          \* the position of the seek that is under way
  base,          \* history: where real_st was moved to last
  far,           \* history: the furthest position read since then
  strays,        \* history: the ways in which seeks went elsewhere than they were asked to
  cache_seeks

ring == <<data, level, pre_size, pre_rp, rp, wp>>
fill == <<fpc, tmp_buf>>
reader == <<rpc, cur_pos, goal, base, far, strays, cache_seeks>>
cache_vars == <<ring, cache_flag, cache_status, fill, real_pos, reader>>

Nowhere == -1
Whence == {"SEEK_SET", "SEEK_CUR"}
SomeGoal == [pos : 0 .. Length, whence : Whence]
NoGoal == [pos |-> 0, whence |-> "SEEK_SET"]

Least(a, b) == IF a <= b THEN a ELSE b
Greatest(a, b) == IF a >= b THEN a ELSE b
Distance(a, b) == Greatest(a, b) - Least(a, b)

(* stream_cache_open: the ring is empty, the thread is created and set to   *)
(* RUNNING before the first read.                                           *)
CacheIdle ==
  /\ data = [i \in 0 .. CacheSize - 1 |-> Nowhere]
  /\ level = 0 /\ pre_size = 0
  /\ pre_rp = 0 /\ rp = 0 /\ wp = 0
  /\ cache_flag = "NULL"
  /\ cache_status = "RUNNING"
  /\ fpc = "top"
  /\ tmp_buf = <<>>
  /\ real_pos = 0
  /\ cur_pos = 0
  /\ goal = NoGoal
  /\ base = 0
  /\ far = 0
  /\ strays = {}
  /\ cache_seeks = 0

CacheInit == CacheIdle /\ rpc = "idle"

-----------------------------------------------------------------------------
(* The ring.                                                                *)

cache_space == CacheSize - level - FixPre

(* Where a read of n bytes leaves rp.                                       *)
AfterRead(n) ==
  IF wp > rp \/ n <= CacheSize - rp THEN rp + n ELSE n - (CacheSize - rp)

cache_read(n) ==
  /\ rp' = AfterRead(n)
  /\ level' = level - n
  /\ pre_size' = pre_size + n
  /\ UNCHANGED <<data, pre_rp, wp>>

ToEnd == CacheSize - wp
Wraps(n) == wp >= rp /\ n > ToEnd

(* Where a write of n bytes leaves wp.                                      *)
AfterWrite(n) == IF Wraps(n) THEN n - ToEnd ELSE wp + n

(* Whether a write of n bytes moves the oldest preserved byte.              *)
MovesPre(n) ==
  IF wp < rp THEN AfterWrite(n) >= pre_rp
  ELSE IF Wraps(n) THEN pre_rp > rp \/ pre_rp < AfterWrite(n)
  ELSE pre_rp > rp /\ AfterWrite(n) > pre_rp

(* What the write takes for the number of preserved bytes then: ahead of    *)
(* rp, and without a wrap, it subtracts pre_size where it means pre_rp.     *)
PreSizeAfter(n) ==
  IF wp >= rp /\ ~Wraps(n) THEN rp + CacheSize - pre_size ELSE rp - AfterWrite(n)

(* cache_write of the n first bytes of tmp_buf.                             *)
cache_write(n) ==
  /\ data' = [i \in DOMAIN data |->
                LET k == (i - wp) % CacheSize IN IF k < n THEN tmp_buf[k + 1] ELSE data[i]]
  /\ wp' = AfterWrite(n)
  /\ level' = level + n
  /\ IF MovesPre(n)
     THEN pre_rp' = AfterWrite(n) /\ pre_size' = PreSizeAfter(n)
     ELSE UNCHANGED <<pre_rp, pre_size>>
  /\ UNCHANGED rp

(* The way from cur_pos to pos as the int cache_seek is given.  (abs of the *)
(* least int is undefined; the builds leave it as it is, and cache_seek     *)
(* takes what is not positive for nothing to do.)                           *)
Step(pos) ==
  LET d == Distance(cur_pos, pos) % (2 * IntMax)
  IN IF d < IntMax THEN d ELSE IF d = IntMax THEN 0 ELSE 2 * IntMax - d

(* cache_seek: whether it finds pos in the ring, and where it leaves rp.    *)
InCache(pos) ==
  \/ Step(pos) = 0
  \/ pos < cur_pos /\ pre_size >= Step(pos) /\ pre_rp # rp
  \/ pos > cur_pos /\ level >= Step(pos) /\ rp # wp

BackTo(step) ==
  IF pre_rp < rp \/ rp > step THEN rp - step ELSE CacheSize - (step - rp)

ForwardTo(step) ==
  IF rp < wp \/ CacheSize - rp > step THEN rp + step ELSE step - (CacheSize - rp)

cache_seek(pos) ==
  LET by == IF pos < cur_pos THEN -Step(pos) ELSE Step(pos)
  IN /\ rp' = IF by = 0 THEN rp ELSE IF by < 0 THEN BackTo(-by) ELSE ForwardTo(by)
     /\ pre_size' = pre_size + by
     /\ level' = level - by
     /\ UNCHANGED <<data, pre_rp, wp>>

(* A seek back across the beginning of the ring whose pre_rp is stale: rp   *)
(* comes to stand in front of it.                                           *)
ToFront(pos) == pos < cur_pos /\ Step(pos) # 0 /\ BackTo(Step(pos)) < 0

(* How a seek in the ring goes elsewhere: it is wider than an int, or as    *)
(* wide as the least one, whose abs the language leaves undefined; it goes  *)
(* back beyond the fifth that is preserved, to bytes that were overwritten  *)
(* or never read, or in front of the ring; or it goes in front of the ring  *)
(* for a byte of the fifth.                                                 *)
Astray(pos) ==
  {way \in {"wide", "least", "beyond", "front"} :
     CASE way = "wide" -> Distance(cur_pos, pos) > IntMax
       [] way = "least" -> Distance(cur_pos, pos) = IntMax
       [] way = "beyond" -> /\ pos < far - FixPre
                            /\ pos < Greatest(base, cur_pos + level - CacheSize) \/ ToFront(pos)
       [] way = "front" -> pos >= far - FixPre /\ ToFront(pos)}

cache_reset ==
  /\ rp' = 0 /\ wp' = 0 /\ pre_rp' = 0
  /\ pre_size' = 0 /\ level' = 0
  /\ UNCHANGED data

-----------------------------------------------------------------------------
(* cache_thread.                                                            *)

Adjacent == {"mark", "check", "clean", "write"}

fill_flag ==
  /\ fpc = "top"
  /\ fpc' = IF cache_flag = "PAUSE" THEN "mark" ELSE "check"
  /\ UNCHANGED <<ring, cache_flag, cache_status, tmp_buf, real_pos, reader>>

fill_mark ==
  /\ fpc = "mark"
  /\ cache_status' = "PAUSED"
  /\ fpc' = "check"
  /\ UNCHANGED <<ring, cache_flag, tmp_buf, real_pos, reader>>

fill_check ==
  /\ fpc = "check"
  /\ fpc' = CASE cache_status = "IDLE" -> "top"
              [] cache_status = "QUIT" -> "exited"
              [] cache_status = "PAUSED" -> "clean"
              [] OTHER -> IF tmp_buf = <<>> THEN "read" ELSE "space"
  /\ UNCHANGED <<ring, cache_flag, cache_status, tmp_buf, real_pos, reader>>

(* Mutant of fill_clean: rlen is not reset.                                 *)
fill_clean_keeps ==
  /\ fpc = "clean"
  /\ cache_flag' = "NULL"
  /\ cache_status' = "IDLE"
  /\ fpc' = "top"
  /\ UNCHANGED <<ring, tmp_buf, real_pos, reader>>

(* What was read before the pause is thrown away.                           *)
fill_clean ==
  /\ fpc = "clean"
  /\ tmp_buf' = <<>>
  /\ cache_flag' = "NULL"
  /\ cache_status' = "IDLE"
  /\ fpc' = "top"
  /\ UNCHANGED <<ring, real_pos, reader>>

(* The source may return fewer bytes than it was asked for.                 *)
fill_read ==
  /\ fpc = "read"
  /\ \E n \in 1 .. Least(ReadPerTime, Length - real_pos) :
       /\ tmp_buf' = [k \in 1 .. n |-> real_pos + k - 1]
       /\ real_pos' = real_pos + n
  /\ fpc' = "space"
  /\ UNCHANGED <<ring, cache_flag, cache_status, reader>>

(* Mutant of fill_eof: the thread does not report that it idles.            *)
fill_eof_running ==
  /\ fpc = "read"
  /\ real_pos >= Length
  /\ cache_flag' = "EOF"
  /\ fpc' = "top"
  /\ UNCHANGED <<ring, cache_status, tmp_buf, real_pos, reader>>

(* At the end of the source both fields are overwritten, whatever they were *)
(* set to while the thread was reading.                                     *)
fill_eof ==
  /\ fpc = "read"
  /\ real_pos >= Length
  /\ cache_flag' = "EOF"
  /\ cache_status' = "IDLE"
  /\ fpc' = "top"
  /\ UNCHANGED <<ring, tmp_buf, real_pos, reader>>

fill_space ==
  /\ fpc = "space"
  /\ fpc' = IF cache_space < Len(tmp_buf) THEN "top" ELSE "write"
  /\ UNCHANGED <<ring, cache_flag, cache_status, tmp_buf, real_pos, reader>>

(* Bytes that no longer fit are dropped.                                    *)
fill_write ==
  /\ fpc = "write"
  /\ LET n == Least(cache_space, Len(tmp_buf))
     IN  IF n = 0
         THEN UNCHANGED <<ring, tmp_buf>>
         ELSE cache_write(n) /\ tmp_buf' = <<>>
  /\ fpc' = "top"
  /\ UNCHANGED <<cache_flag, cache_status, real_pos, reader>>

cache_thread ==
  \/ fill_flag  \/ fill_mark \/ fill_check \/ fill_clean
  \/ fill_read  \/ fill_eof  \/ fill_space \/ fill_write

-----------------------------------------------------------------------------
(* The demuxer's thread.                                                    *)

Undisturbed == Prompt => fpc \notin Adjacent

stream_cache_read(len) ==
  /\ rpc = "idle"
  /\ Undisturbed
  /\ level > 0
  /\ LET n == Least(level, len)
     IN  /\ cache_read(n)
         /\ cur_pos' = cur_pos + n
         /\ far' = Greatest(far, cur_pos + n)
  /\ UNCHANGED <<cache_flag, cache_status, fill, real_pos, rpc, goal, base,
                 strays, cache_seeks>>

MaySeek ==
  /\ rpc = "idle"
  /\ Undisturbed
  /\ cache_seeks < MaxCacheSeeks

seek_in_cache(pos) ==
  /\ MaySeek
  /\ InCache(pos)
  /\ cache_seek(pos)
  /\ cur_pos' = pos
  /\ far' = Greatest(far, pos)
  /\ strays' = strays \cup Astray(pos)
  /\ cache_seeks' = cache_seeks + 1
  /\ UNCHANGED <<cache_flag, cache_status, fill, real_pos, rpc, goal, base>>

seek_pause(pos, whence) ==
  /\ MaySeek
  /\ ~InCache(pos)
  /\ cache_flag' = "PAUSE"
  /\ goal' = [pos |-> pos, whence |-> whence]
  /\ rpc' = "pause"
  /\ cache_seeks' = cache_seeks + 1
  /\ UNCHANGED <<ring, cache_status, fill, real_pos, cur_pos, base, far, strays>>

(* pause_cache_thread.                                                      *)
seek_wait ==
  /\ rpc = "pause"
  /\ Undisturbed
  /\ cache_status = "IDLE"
  /\ rpc' = "unflag"
  /\ UNCHANGED <<ring, cache_flag, cache_status, fill, real_pos, cur_pos, goal,
                 base, far, strays, cache_seeks>>

(* The real stream moves relative to its own position, not to that of the   *)
(* cached stream; a move in front of its start fails and is ignored.        *)
RealSeek ==
  IF goal.whence = "SEEK_SET" THEN goal.pos
  ELSE IF real_pos + goal.pos - cur_pos >= 0 THEN real_pos + goal.pos - cur_pos
  ELSE real_pos

seek_real ==
  /\ rpc = "unflag"
  /\ Undisturbed
  /\ cache_flag' = "NULL"
  /\ real_pos' = RealSeek
  /\ strays' = strays \cup {way \in {"relative"} : RealSeek # goal.pos}
  /\ cache_reset
  /\ rpc' = "resume"
  /\ UNCHANGED <<cache_status, fill, cur_pos, goal, base, far, cache_seeks>>

(* resume_cache_thread, and the position the caller asked for.              *)
seek_resume ==
  /\ rpc = "resume"
  /\ Undisturbed
  /\ cache_flag' = "NULL"
  /\ cache_status' = "RUNNING"
  /\ cur_pos' = goal.pos
  /\ base' = goal.pos
  /\ far' = goal.pos
  /\ goal' = NoGoal
  /\ rpc' = "idle"
  /\ UNCHANGED <<ring, fill, real_pos, strays, cache_seeks>>

stream_cache_seek ==
  \/ \E pos \in 0 .. Length :
       \/ seek_in_cache(pos)
       \/ \E whence \in Whence : seek_pause(pos, whence)
  \/ seek_wait \/ seek_real \/ seek_resume

(* stop_cache_thread.                                                       *)
stop_cache_thread ==
  /\ rpc = "idle"
  /\ Undisturbed
  /\ cache_flag' = "NULL"
  /\ cache_status' = "QUIT"
  /\ rpc' = "join"
  /\ UNCHANGED <<ring, fill, real_pos, cur_pos, goal, base, far, strays, cache_seeks>>

stream_cache_close ==
  /\ rpc = "join"
  /\ fpc = "exited"
  /\ rpc' = "closed"
  /\ UNCHANGED <<ring, cache_flag, cache_status, fill, real_pos, cur_pos, goal,
                 base, far, strays, cache_seeks>>

CacheNext ==
  \/ cache_thread
  \/ \E len \in 1 .. MaxRead : stream_cache_read(len)
  \/ stream_cache_seek
  \/ stop_cache_thread
  \/ stream_cache_close

CacheSpec == CacheInit /\ [][CacheNext]_cache_vars

(* Both threads run; that the demuxer reads, seeks or closes is its own     *)
(* decision, to finish a seek is not.  The space the thread waits for is    *)
(* made by the demuxer.  The thread sleeps in every round of its loop, so a *)
(* step that Prompt holds back meanwhile is taken in the end.               *)
CacheFairSpec ==
  /\ CacheSpec
  /\ WF_cache_vars(cache_thread)
  /\ SF_cache_vars(seek_wait) /\ SF_cache_vars(seek_real) /\ SF_cache_vars(seek_resume)
  /\ WF_cache_vars(stream_cache_close)

-----------------------------------------------------------------------------

CacheTypeOK ==
  /\ data \in [0 .. CacheSize - 1 -> Nowhere .. Length - 1]
  /\ {level, pre_size, pre_rp, rp} \subseteq Int
  /\ wp \in 0 .. CacheSize
  /\ cache_flag \in {"NULL", "PAUSE", "EOF"}
  /\ cache_status \in {"IDLE", "PAUSED", "RUNNING", "QUIT"}
  /\ fpc \in {"top", "read", "space", "exited"} \cup Adjacent
  /\ tmp_buf \in Seq(0 .. Length - 1) /\ Len(tmp_buf) <= ReadPerTime
  /\ real_pos \in Nat
  /\ rpc \in {"idle", "pause", "unflag", "resume", "join", "closed"}
  /\ {cur_pos, base, far} \subseteq Nat
  /\ goal \in SomeGoal
  /\ strays \subseteq {"wide", "least", "beyond", "front", "relative"}
  /\ cache_seeks \in 0 .. MaxCacheSeeks

(* stream_cache_read and cache_thread: what the demuxer will read next are  *)
(* the bytes of the source at its position, with what the thread holds and  *)
(* what it will read behind them: nothing lost, nothing twice, nothing from *)
(* before a seek.  It reads inside the ring.                                *)
HoldsAhead ==
  rpc = "idle" =>
    /\ rp \in 0 .. CacheSize
    /\ \A k \in 0 .. level - 1 : data[(rp + k) % CacheSize] = cur_pos + k
    /\ real_pos = cur_pos + level + Len(tmp_buf)

(* stream_cache.c:43: at least fix_pre_size of the bytes the demuxer has    *)
(* read since the source was moved are preserved, however far the thread    *)
(* has filled the ring.                                                     *)
PreservedIsFile ==
  rpc = "idle" =>
    \A k \in 1 .. FixPre - (far - cur_pos) :
      k <= cur_pos - base => data[(rp - k) % CacheSize] = cur_pos - k

(* Before and behind the demuxer's position the ring is the file.           *)
RingIsFile == HoldsAhead /\ PreservedIsFile

(* The ring is the file, until a seek went elsewhere than it was asked to,  *)
(* and only these kinds of seeks do: one of 2^31 bytes or more that the     *)
(* ring's test takes for a short one; one back beyond the fifth, where the  *)
(* test lets it through to bytes that are not in the ring any more; one     *)
(* back in the fifth across the beginning of the ring when pre_rp is stale; *)
(* and one relative to a position the source is not at.                     *)
CacheHoldsFile == strays = {} => RingIsFile

(* stream_cache.c:43, at least total*0.2 bytes are preserved: a seek back   *)
(* by no more than that finds them.                                         *)
FifthIsPreserved == strays \subseteq {"front"} => RingIsFile

(* stream_cache.c:195, "step - seek step bytes": however many they are.     *)
SeeksItsStep == strays \subseteq {"wide"} => RingIsFile

(* A seek relative to the position of the cached stream skips so many of    *)
(* its bytes.                                                               *)
SkipsFromHere == strays \subseteq {"relative"} => RingIsFile

(* pause_cache_thread spins without a limit: a seek comes to its end        *)
(* although the thread may be reading, waiting for space, idling, or        *)
(* overwriting the flag it is asked with; and then, also after the end of   *)
(* the source was met, the thread fills an empty ring as long as there are  *)
(* bytes to read.                                                           *)
Starved == strays = {} /\ rpc = "idle" /\ level = 0 /\ cur_pos < Length

Refills == rpc = "pause" \/ Starved ~> (rpc = "idle" /\ ~Starved) \/ rpc \in {"join", "closed"}
=============================================================================
