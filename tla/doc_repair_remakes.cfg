\* A check of technical QA fails until its retries are used up; the repair restarts the
\* pipeline at asset_acquisition.  MaxFaults bounds crashes and failing renderings.
CONSTANTS
    MaxFaults = 2
SPECIFICATION Spec
INVARIANT RepairRunsItsStage
CHECK_DEADLOCK FALSE
