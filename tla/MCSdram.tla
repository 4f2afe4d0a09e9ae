------------------------------- MODULE MCSdram -------------------------------
(***************************************************************************)
(* Two small instances of the SDRAM: one with all data and no refresh, and *)
(* one with refreshes at every possible moment and no data, since the data *)
(* may be wrong then (see MCSdramRace.cfg).                                *)
(***************************************************************************)
EXTENDS Sdram

VARIABLE refreshing

Plain == INSTANCE Sdram WITH REFRESH_INTERVAL <- 0, WAIT <- 1

Refreshed == INSTANCE Sdram WITH Byte <- {0}

ASSUME InstanceAssumption == Plain!SdramAssumption /\ Refreshed!SdramAssumption
ASSUME RefreshAssumption == Plain!SlowRefresh /\ Refreshed!SlowRefresh

MCInit == \/ refreshing = TRUE /\ Refreshed!Init
          \/ refreshing = FALSE /\ Plain!Init

MCNext == /\ IF refreshing THEN Refreshed!Next ELSE Plain!Next
          /\ UNCHANGED refreshing

MCSpec == /\ MCInit /\ [][MCNext]_<<refreshing, vars>>
          /\ WF_<<p, c>>(refreshing /\ Refreshed!Works)
          /\ WF_<<p, c>>(refreshing /\ Refreshed!Takes)

\* Sdram: requests are answered and refreshes are carried out.
RefreshedServed == refreshing => Refreshed!Served
=============================================================================
