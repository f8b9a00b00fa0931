--------------------------- MODULE MCHostServices ---------------------------
(* A file with sound and picture, one with picture and subtitles, one with  *)
(* sound alone; every stage of host_init may fail.                          *)
EXTENDS HostServices

MCFiles == {{"audio", "video"}, {"video", "sub"}, {"audio"}}
MCMayFail == {"audio_decoder", "audio_output", "video_decoder", "video_output",
              "sub_decoder", "sub_output"}
=============================================================================
