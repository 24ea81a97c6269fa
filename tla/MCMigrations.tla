---------------------------- MODULE MCMigrations ----------------------------
(* Both dialects; besides rows of every ordinary kind, one at a time of the  *)
(* kinds some script does not convert, and two workflow runs in progress.    *)
EXTENDS Migrations
BothDialects == {"sqlite", "postgresql"}
Unconverted ==
  {<<"jobs", "run_book">>, <<"jobs", "resume_book">>,
   <<"provider_calls", "book_critique">>, <<"chapters", "evaluated_passed">>,
   <<"chapters", "evaluated_needs_revision">>,
   <<"chapters", "evaluation_failed">>, Twice}
=============================================================================
