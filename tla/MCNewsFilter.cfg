SPECIFICATION Spec
CONSTANTS
  Count = 2
  Matches = {{1, 2}, {2}}
  MaxDialogs = 1
INVARIANT ToastShowsClicked
