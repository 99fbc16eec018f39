-------------------------- MODULE MCCaptionPipeline --------------------------
(* Three showings of two programs: the first program is shown twice.       *)
EXTENDS CaptionPipeline

MCTitle == <<"news", "news", "film">>
=============================================================================
