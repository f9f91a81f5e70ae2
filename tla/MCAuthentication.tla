-------------------------- MODULE MCAuthentication --------------------------
(* Small instances of Authentication. *)
EXTENDS Authentication

CONSTANTS s1, s2, c1, c2, c3, c4

\* Known devices and everybody, between which the platform is switched: with
\* registration, with connections that overlap and without; and a list of codes,
\* which is taken away, with registration refused.
Platforms ==
  [AUTH_MODE : {"known_devices", "accept_all"}, ALLOWED_AUTH_CODES : {{}},
   REGISTRATION_MODE : {"issue_code"}, overlap : BOOLEAN]
  \cup [AUTH_MODE : {"known_devices"}, ALLOWED_AUTH_CODES : {{}, {Factory}},
        REGISTRATION_MODE : {"reject"}, overlap : {TRUE}]
=============================================================================
