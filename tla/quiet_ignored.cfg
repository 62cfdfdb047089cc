\* A warning under --quiet, from a shell that exports nothing.
CONSTANTS
  EnvLevels = {"", "DEBUG"}
  Options = {{}, {"quiet"}, {"verbose"}, {"unsafe_debug_prompt"}}
SPECIFICATION LogSpec
INVARIANTS QuietSuppresses
