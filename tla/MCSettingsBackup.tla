-------------------------- MODULE MCSettingsBackup --------------------------
(* Three edits, and two losses of power. *)
EXTENDS SettingsBackup

NoExposure == {}
OnImport   == {"importAfterWipe"}
=============================================================================
