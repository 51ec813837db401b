---------------------------- MODULE HealthAlertsMC ----------------------------
(* A small instance of HealthAlerts. *)
EXTENDS HealthAlerts, TLC

CONSTANTS c1, s1, s2
===============================================================================
