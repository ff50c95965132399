------------------------------ MODULE MCSession ------------------------------
(* A laptop, a CI job and two slips in each of the places that are read.    *)
EXTENDS Session, TLC

MCNames == {"BASE_URL", "DB_ENABLED", "DB_PASSWORD", "TEST_ENV"}
Blank == [n \in MCNames |-> Unset]
Staging == [Blank EXCEPT !["BASE_URL"] = "https://staging"]

MCEnvirons == {
  Blank,
  [Staging EXCEPT !["TEST_ENV"] = "ci", !["DB_ENABLED"] = "true", !["DB_PASSWORD"] = "secret"],
  [Blank EXCEPT !["BASE_URL"] = "", !["TEST_ENV"] = "ci"],
  [Blank EXCEPT !["DB_ENABLED"] = "true"]}

MCDotEnvs == {
  Blank,
  [Staging EXCEPT !["DB_ENABLED"] = "true", !["DB_PASSWORD"] = "secret", !["TEST_ENV"] = "ci"],
  [Blank EXCEPT !["BASE_URL"] = "staging"],
  [Blank EXCEPT !["DB_ENABLED"] = "false"]}
=============================================================================
