---- MODULE MCAudioStream ----
(* TLC instance: one stream, one jack work, two tags, two elements a queue. *)
EXTENDS AudioStream
====
