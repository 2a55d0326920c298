--------------------------- MODULE MCSettingsPage ---------------------------
(* The three providers of the form; SMTP is configured on the server, the  *)
(* other two are not.                                                      *)
EXTENDS SettingsPage

MCServerInit == [p \in Providers |->
                   IF p = "smtp" THEN [enabled |-> TRUE, fields |-> "full"]
                   ELSE Default]

=============================================================================
