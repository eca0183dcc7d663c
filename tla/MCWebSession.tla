------------------------------ MODULE MCWebSession ------------------------------
(***************************************************************************)
(* Instance of WebSession for TLC: the settings of each run.  Tabs are     *)
(* interchangeable, and every set of settings is closed under exchanging   *)
(* them.                                                                   *)
(***************************************************************************)
EXTENDS WebSession, TLC

Symmetry == Permutations(Tabs)

Default == [versionCheck |-> TRUE, strictBind |-> FALSE, failures |-> FALSE,
            revocations |-> FALSE, open |-> Tabs]

OneTab(setting0) == {[setting0 EXCEPT !.open = {t}] : t \in Tabs}

Quiet   == OneTab(Default)
Revoked == OneTab([Default EXCEPT !.revocations = TRUE])

\* One tab undisturbed, two tabs while the API fails, two tabs while another
\* device ends the sessions, and one tab with both, the opt-out included.
AllSettings ==
  UNION { Quiet,
          {[Default EXCEPT !.failures = TRUE]},
          {[Default EXCEPT !.revocations = TRUE]},
          OneTab([Default EXCEPT !.failures = TRUE, !.revocations = TRUE]),
          OneTab([Default EXCEPT !.failures = TRUE, !.revocations = TRUE,
                                 !.versionCheck = FALSE]) }
=============================================================================
