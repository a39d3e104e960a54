--------------------------- MODULE MCNasRecorder ----------------------------
(* Values for the constants of NasRecorder: requests for one subject and   *)
(* for two, so that a request can fail halfway; and for the second of them *)
(* only, so that a callback of the failed one can meet another recording.  *)
EXTENDS NasRecorder

MCSubjects == {"attitude", "power"}
MCRequests == {<<"attitude">>, <<"power">>, <<"attitude", "power">>}
OneRequest == {<<"attitude">>}
==============================================================================
