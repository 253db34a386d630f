----------------------------- MODULE MCTraffic -----------------------------
(* The routes: POST /ask/me, GET /me/recommend and POST /recommend; the    *)
(* limiter is the one of /ask/me.                                          *)
EXTENDS Traffic

AskMe == <<"limit", "session", "search">>
Mine == <<"session", "search">>
Recommend == <<"search", "session">>

MCRoutes == {AskMe, Mine, Recommend}
=============================================================================
