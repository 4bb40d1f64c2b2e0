------------------------- MODULE MC_AnisetteCache -------------------------
(* Two tasks share one AnisetteClient; one tick stands for 30 s, so the   *)
(* 60 s TTL is 2 ticks and the 120 s fallback age 4 ticks.                 *)
EXTENDS AnisetteCache, TLC

CONSTANTS t1, t2

MCTasks == {t1, t2}



=============================================================================
