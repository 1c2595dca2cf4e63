------------------------------ MODULE MCCDPlay ------------------------------
(* A disc of music and one of data; a user who wants a disc played when it is
   put in, be it noticed by the empty drive or by what is on the disc, and one
   who wants it played for ever. *)
EXTENDS CDPlay

MCDiscs == {<<"audio", "audio">>, <<"data">>}
MCConfigs == {{"autoPlayCD", "autoDetectChange"}, {"autoPlayCD"},
              {"autoRepeatCD", "autoDetectChange"}}
=============================================================================
