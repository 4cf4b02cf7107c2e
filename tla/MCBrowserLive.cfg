CONSTANTS
  Parts = {"realtime settles", "realtime turns settle", "gemini connects", "browser tools",
           "browser call ends", "speech ends"}
  v1 = v1
  v2 = v2
  v3 = v3
  v4 = v4
SPECIFICATION LiveSpec
PROPERTIES
  WaitsEnd
CHECK_DEADLOCK FALSE
