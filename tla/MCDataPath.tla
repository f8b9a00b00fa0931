----------------------------- MODULE MCDataPath -----------------------------
(* The two buffers between a source and the decoders, one at a time: the    *)
(* bytes of a cached stream on their way to the demuxer, and the packets on *)
(* their way from the demuxer to the output.                                *)
(*                                                                          *)
(* A source of some bytes more than the ring holds, so that the ring wraps  *)
(* and its preserved part is overtaken; an audio queue of 4 units and a     *)
(* video queue of 6, which a file that delivers the video two packets ahead *)
(* fills while the audio queue has less than its limit of 2.                *)
EXTENDS PacketFlow, StreamCache

CONSTANT Buffers   \* which of "packets" and "bytes" a run looks at

VARIABLE buffer

MCTotal == [m \in Media |-> IF m = "sub" THEN 1 ELSE 6]
MCSize == [m \in Media |-> IF m = "video" THEN 2 ELSE 1]
MCMaxNum == [m \in AV |-> 2]
MCMaxSize == [m \in AV |-> IF m = "audio" THEN 4 ELSE 6]
MCEnter == [m \in AV |-> IF m = "audio" THEN 1 ELSE 2]
MCExit == [m \in AV |-> IF m = "audio" THEN 2 ELSE 4]

\* A run that looks at packets has no cached stream.
DataPathInit ==
  /\ Init /\ CacheIdle /\ buffer \in Buffers
  /\ rpc = IF buffer = "bytes" THEN "idle" ELSE "closed"

DataPathNext ==
  /\ UNCHANGED buffer
  /\ \/ buffer = "packets" /\ Next /\ UNCHANGED cache_vars
     \/ buffer = "bytes" /\ CacheNext /\ UNCHANGED vars

DataPathFairness ==
  /\ WF_vars(buffer = "packets" /\ io_thread)
  /\ \A m \in Stream : /\ WF_vars(buffer = "packets" /\ port_read_frame(m))
                       /\ WF_vars(buffer = "packets" /\ render(m))
  /\ WF_vars(buffer = "packets" /\ player_buffering_check)
  /\ WF_cache_vars(buffer = "bytes" /\ cache_thread)
  /\ SF_cache_vars(buffer = "bytes" /\ seek_wait)
  /\ SF_cache_vars(buffer = "bytes" /\ seek_real)
  /\ SF_cache_vars(buffer = "bytes" /\ seek_resume)
  /\ WF_cache_vars(buffer = "bytes" /\ stream_cache_close)

DataPathSpec ==
  DataPathInit /\ [][DataPathNext]_<<buffer, vars, cache_vars>> /\ DataPathFairness
=============================================================================
