----------------------------- MODULE MCSettings -----------------------------
(* Small instances of SettingsStore for TLC.                               *)
EXTENDS SettingsStore, TLC

CONSTANTS p1, p2, a, b, bad

MCPlain == {"protect_recent", "min_tokens_to_compress"}
MCPointers == {"target_ratio", "savings_profile"}
MCValues == {a, b, bad}

\* The updates: one function gives the fields named, the rest is absent.
Update(fields) ==
  [f \in Fields |-> IF f \in DOMAIN fields THEN fields[f] ELSE Absent]
Json(fields) == [set |-> Update(fields), form |-> "json", profileKey |-> "exact"]

MCBodies == {
  Json("protect_recent" :> b),
  Json("min_tokens_to_compress" :> b @@ "target_ratio" :> a),
  Json("protect_recent" :> bad @@ "target_ratio" :> b),
  Json("target_ratio" :> bad),
  Json("target_ratio" :> Nil @@ "savings_profile" :> a),
  [Json("savings_profile" :> b) EXCEPT !.profileKey = "folded"],
  [Json("min_tokens_to_compress" :> a @@ "target_ratio" :> b) EXCEPT !.form = "mistyped"],
  [Json(<<>>) EXCEPT !.form = "malformed"] }

\* No file yet, a broken one, a valid one, one that validate refuses, and one
\* that names a single field.
MCFiles == {
  NoFile, Corrupt,
  [defaultSettings EXCEPT !["target_ratio"] = a],
  [defaultSettings EXCEPT !["protect_recent"] = bad],
  Update("target_ratio" :> a) }
=============================================================================
