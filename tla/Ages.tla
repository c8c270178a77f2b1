-------------------------------- MODULE Ages --------------------------------
(* Lists of moments, oldest first, each kept as its age: the lists of      *)
(* timestamps that backend/cpip_provider.py and backend/rate_limiter.py    *)
(* cut to a window.                                                        *)
EXTENDS Integers, Sequences

\* [t for t in ages if now - t < w].
Fresh(ages, w) ==
    LET upTo[n \in 0..Len(ages)] ==
          IF n = 0 THEN <<>>
          ELSE IF ages[n] < w THEN Append(upTo[n - 1], ages[n]) ELSE upTo[n - 1]
    IN  upTo[Len(ages)]

\* A tick later; an age beyond the window tells no more than one of its length.
Aged(ages, w) == [i \in DOMAIN ages |-> IF ages[i] + 1 < w THEN ages[i] + 1 ELSE w]
=============================================================================
