------------------------------ MODULE MCLoader ------------------------------
(***************************************************************************)
(* The link under every trouble at once, and beside it the link whose only *)
(* trouble is fewer damaged tokens than a chunk has attempts.  link says   *)
(* which of the two a behaviour is of; the other stands still.             *)
(***************************************************************************)
EXTENDS LoaderLink

\* Files of one and of two chunks, and what the card may hold already.
One == <<"a">>
Two == <<"a", "b">>

OnlyTwo   == {Two}
WithEmpty == {<<>>, One, Two}

OnCard      == {Two}
AnyCard     == {Absent, Two}
EmptyOnCard == {<<>>, Two}

VARIABLES link,
          m_toDevice, m_toHost, m_hostBaud, m_deviceBaud, m_host, m_op, m_image, m_at,
          m_tries, m_copy, m_result, m_runs, m_device, m_command, m_header, m_got, m_store,
          m_jumped, m_faults

Mild == INSTANCE LoaderLink WITH
          Image <- OnlyTwo, Stored <- EmptyOnCard, Ops <- {"boot", "memWrite", "sdWrite", "sdRead"},
          Retries <- 3, Fragile <- {"crc", "data", "hello"}, Lossy <- {}, Trouble <- {},
          toDevice <- m_toDevice, toHost <- m_toHost, hostBaud <- m_hostBaud,
          deviceBaud <- m_deviceBaud, host <- m_host, op <- m_op, image <- m_image,
          at <- m_at, tries <- m_tries, copy <- m_copy, result <- m_result, runs <- m_runs,
          device <- m_device, command <- m_command, header <- m_header, got <- m_got,
          store <- m_store, jumped <- m_jumped, faults <- m_faults
mildVars == <<m_toDevice, m_toHost, m_hostBaud, m_deviceBaud, m_host, m_op, m_image, m_at,
              m_tries, m_copy, m_result, m_runs, m_device, m_command, m_header, m_got,
              m_store, m_jumped, m_faults>>

MCInit == link \in {"rough", "mild"} /\ Init /\ Mild!Init
MCNext == \/ link = "rough" /\ Next /\ UNCHANGED <<link, mildVars>>
          \/ link = "mild" /\ Mild!Next /\ UNCHANGED <<link, vars>>
MCSpec == /\ MCInit /\ [][MCNext]_<<link, vars, mildVars>>
          /\ WF_mildVars(link = "mild" /\ Mild!Serve) /\ WF_mildVars(link = "mild" /\ Mild!Run)

\* A command that ends well has achieved what it was asked for, and through every trouble the
\* loader never takes a file's bytes for commands.
AchievedInStep == [][InStep']_vars /\ OkMeansAchieved

\* With fewer chunks damaged than a chunk has attempts every command ends well, and after it the
\* loader is back at the base rate.
MildEndsWell == [][Mild!BackAtBase']_mildVars /\ Mild!Heals
=============================================================================
