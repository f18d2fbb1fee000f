---------------------------- MODULE MCVoiceAlerts ---------------------------
(* Two radar alerts, and room for one in the list of those announced. *)
EXTENDS VoiceAlerts

MCAlerts  == {"k", "ka"}
MCOptions == LET usual == {"direction", "bogeyCount", "secondary"}
             IN  {usual, usual \union {"firstAlertOnly"}}
=============================================================================
