-------------------------- MODULE MCTimelockAuthorizer --------------------------
\* Instances of the Authorizer for TLC: see the .cfg files for what each explores.
EXTENDS TimelockAuthorizer

CONSTANTS admin, alice, zero, vault, setAuthorizer

\* Transfers of the root, changes of delays, and the detours to setPendingRoot and
\* setDelay that schedule refuses.
RootEntryPoints == {"scheduleRootChange", "claimRoot", "schedule",
                    "scheduleDelayChange", "grantPermissions",
                    "renouncePermissions"}
\* Changes of delays, what they delay, and cancellations.
DelayEntryPoints == {"scheduleDelayChange", "schedule", "grantPermissions",
                     "cancel", "manageRevoker"}
\* Delayed grants and revocations.
PowerEntryPoints == {"scheduleDelayChange", "scheduleGrantPermission",
                     "scheduleRevokePermission", "manageGranter",
                     "grantPermissions", "revokePermissions"}

OnlySetAuthorizer == {setAuthorizer}
OnlySelfCalls == {<<"setPendingRoot">>, <<"setDelay">>}
WithSelfCalls == {setAuthorizer} \union OnlySelfCalls
WithPowers == {setAuthorizer, grantId(setAuthorizer), revokeId(setAuthorizer)}
=============================================================================
