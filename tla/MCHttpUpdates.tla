--------------------------- MODULE MCHttpUpdates ---------------------------
(***************************************************************************)
(* Uploads of every kind, and reads of the values behind functions.        *)
(***************************************************************************)
EXTENDS MCHttpService, HttpUpdates

GetFunc    == Ask("GET", <<"func">>, <<KeepAlive>>, <<>>)
GetSecond  == Ask("GET", <<"list", "1">>, <<KeepAlive>>, <<>>)
PutPlain   == Ask("PUT", <<"func">>, <<Type("plain"), KeepAlive>>, <<"2", "eol">>)
PostSecond == Ask("POST", <<"list", "1">>, <<Type("json"), KeepAlive>>, <<"1", "eol">>)

Updates == (Uploads \ {GetText}) \cup {GetFunc, GetSecond, PutPlain, PostSecond, SpoilFunc}

\* What the promises ask of the requests.
ASSUME UpdatesAreAsAsked == Requests = Updates => RegularRequests /\ CompleteUploads /\ PlainUploads
=============================================================================
