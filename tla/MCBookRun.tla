------------------------------ MODULE MCBookRun ------------------------------
(***************************************************************************)
(* Small instances of BookRun for TLC.                                     *)
(***************************************************************************)
EXTENDS BookRun

AllRequests == {"pause", "resume", "cancel", "job_pause", "job_resume",
                "job_cancel", "job_retry"}
==============================================================================
