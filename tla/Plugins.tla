------------------------------- MODULE Plugins -------------------------------
(***************************************************************************)
(* The lists of plugins: streams, demuxers, decoders, outputs and filters.  *)
(* Each kind has a global head pointer and the list is threaded through the *)
(* plugins' own next pointers, which are global too: they outlive a player. *)
(* Internal plugins are appended when a player is opened, the application's *)
(* are put in front, and all lists are dropped when a player has ended.     *)
(*                                                                          *)
(* A list threaded through its members can be tied into a ring by putting a *)
(* member in front a second time; register_vdec_ext looks for that, the     *)
(* other kinds that take plugins of the application do not.                 *)
(***************************************************************************)
EXTENDS Naturals, FiniteSets, Sequences

CONSTANTS
  Plugin,    \* all plugins
  Null,
  Internal,  \* [Kind -> Seq(Plugin)]: what *_register_all appends
  Handles    \* [Plugin -> a record with the id or the format a plugin stands for]

Kind == {"stream", "demuxer", "ad", "ao", "vd", "vo", "vf", "sd", "so"}

ASSUME PluginsAssumption ==
  /\ Null \notin Plugin
  /\ IsFiniteSet(Plugin)
  /\ Internal \in [Kind -> Seq(Plugin)]
  /\ \A p \in Plugin : {"kind", "format", "hw"} \subseteq DOMAIN Handles[p] /\ Handles[p].kind \in Kind
  /\ \A k \in Kind : \A i, j \in DOMAIN Internal[k] :
       Handles[Internal[k][i]].kind = k /\ (Internal[k][i] = Internal[k][j] => i = j)

VARIABLES
  head,        \* [Kind -> Plugin or Null]: g_stream, g_demuxer, g_ad, ...
  next,        \* [Plugin -> Plugin or Null]: the next pointers
  register_ok  \* dtplayer.c: the lists have been built

pluginvars == <<head, next, register_ok>>

PluginsInit ==
  /\ head = [k \in Kind |-> Null]
  /\ next = [p \in Plugin |-> Null]
  /\ register_ok = FALSE

-----------------------------------------------------------------------------
(* Walking a list: the n-th plugin, Null once the list has ended.           *)

Bound == Cardinality(Plugin)

Nth(k) ==
  LET nth[n \in 0..Bound] ==
        IF n = 0 THEN head[k] ELSE IF nth[n - 1] = Null THEN Null ELSE next[nth[n - 1]]
  IN nth

Listed(k) == LET nth == Nth(k) IN {nth[n] : n \in 0..Bound} \ {Null}

Ends(k) == Nth(k)[Bound] = Null

(* The first plugin of list k in a set, or Null.                            *)
First(k, fitting) ==
  LET nth == Nth(k)
      at == {n \in 0..Bound : nth[n] \in fitting}
  IN IF at = {} THEN Null ELSE nth[CHOOSE n \in at : \A m \in at : n <= m]

(* In a ring the search for a plugin that is not in it never ends.          *)
Found(k, fitting) == First(k, fitting) # Null \/ Ends(k)

-----------------------------------------------------------------------------
(* player_register_all: register_adec, register_ao and their like walk to   *)
(* the end and append the internal plugins one by one, behind what the      *)
(* application has put in front before.  In a ring the walk never ends.     *)

KindOf(p) == Handles[p].kind

Place(p) == CHOOSE i \in DOMAIN Internal[KindOf(p)] : Internal[KindOf(p)][i] = p

IsInternal(p) == \E i \in DOMAIN Internal[KindOf(p)] : Internal[KindOf(p)][i] = p

FirstInternal(k) == IF Internal[k] = <<>> THEN Null ELSE Internal[k][1]

Appended(p) ==
  IF IsInternal(p)
    THEN IF Place(p) = Len(Internal[KindOf(p)]) THEN Null
         ELSE Internal[KindOf(p)][Place(p) + 1]
    ELSE IF p \in Listed(KindOf(p)) /\ next[p] = Null THEN FirstInternal(KindOf(p))
         ELSE next[p]

player_register_all ==
  IF register_ok THEN UNCHANGED pluginvars
  ELSE /\ \A k \in Kind : Ends(k)
       /\ register_ok' = TRUE
       /\ head' = [k \in Kind |-> IF head[k] = Null THEN FirstInternal(k) ELSE head[k]]
       /\ next' = [p \in Plugin |-> Appended(p)]

(* The lists are dropped; the plugins keep their next pointers.             *)
player_remove_all ==
  IF register_ok
    THEN /\ register_ok' = FALSE
         /\ head' = [k \in Kind |-> Null]
         /\ UNCHANGED next
    ELSE UNCHANGED pluginvars

(* aout_register_ext, vout_register_ext, so_register_ext, vf_register_ext   *)
PutInFront(k, p) ==
  /\ head' = [head EXCEPT ![k] = p]
  /\ next' = [next EXCEPT ![p] = head[k]]
  /\ UNCHANGED register_ok

register_unchecked(p) == PutInFront(Handles[p].kind, p)

register_vdec_ext_twice(p) == PutInFront("vd", p)

(* register_vdec_ext refuses a plugin it already has.                       *)
register_vdec_ext(p) ==
  IF p \in Listed("vd") THEN UNCHANGED pluginvars ELSE PutInFront("vd", p)

dtplayer_register_plugin(p) ==
  \/ Handles[p].kind \in {"ao", "vo", "so", "vf"} /\ register_unchecked(p)
  \/ Handles[p].kind = "vd" /\ register_vdec_ext(p)

-----------------------------------------------------------------------------
(* Choosing a plugin                                                        *)

Any == "any"   \* a format no decoder is asked for by name: DT_*_FORMAT_UNKOWN

(* A hardware decoder says what it decodes; the built-in one that decodes   *)
(* anything is software (vd_ffmpeg.c:400).                                  *)
ASSUME HardwareAssumption == \A p \in Plugin : Handles[p].hw => Handles[p].format # Any

OfFormat(f) == {p \in Plugin : Handles[p].format \in {f, Any}}

(* A decoder that handles any format ends the search.                       *)
select_audio_decoder(f) == First("ad", OfFormat(f))

select_sub_decoder(f) == First("sd", OfFormat(f))

(* A hardware decoder is passed over when the player disables them.         *)
select_video_decoder(f, disable_hw) ==
  First("vd", {p \in OfFormat(f) :
                 disable_hw /\ Handles[p].hw => Handles[p].format = Any})

(* select_ao_device(-1), select_vo_device(-1), select_so_device(-1)         *)
select_ao_device == head["ao"]
select_vo_device == head["vo"]
select_so_device == head["so"]

(* select_vf: the first filter that is capable of what is asked for.        *)
select_vf(cap) == First("vf", OfFormat(cap))

=============================================================================
